---- MODULE Spec2Model ----
(***************************************************************************)
(* QuickDb: the typed value model (FieldValue / FieldType), its conversion *)
(* to and from host values and BSON elements, and the fluent Query and     *)
(* Update builders.                                                        *)
(*                                                                         *)
(* A FieldValue is the triple <<type, index, payload>>: the FieldType tag, *)
(* the active alternative of the std::variant, and the value it holds.     *)
(* The tag and the alternative are separate members in the source, so the  *)
(* model keeps them separate too.                                          *)
(***************************************************************************)
EXTENDS Integers, Sequences, FiniteSets, TLC

\* Longest host sequence (std::vector<T>) the value specification draws.
MaxLen == 2
\* Number of builder calls made on one Update builder.
MaxUpdateCalls == 3
\* Number of builder calls made on one Query builder.
MaxQueryCalls == 3
\* Calls chained on one Aggregation.
MaxStageCalls == 3
\* Collection operations applied to one Document object.
MaxCollectionCalls == 3
\* Whole buffers a source file spans (its length goes one byte beyond).
MaxBlocks == 2
\* Files uploaded to one bucket.
MaxFiles == 2
\* maxPoolSize: the clients of the connection pool
MaxPoolSize == 3
\* the Database objects constructed
MaxDatabases == 2
\* the Collection and GridFSBucket objects alive at once
MaxHandles == 2

VARIABLES
    fieldValue, \* the FieldValue at hand
    how,        \* the path that produced fieldValue
    host,       \* the host value <<T, x>> (or the wire element <<"BsonElement", e>>)
                \* fieldValue was made from, or NoHost
    orig,       \* the FieldValue that was handed to AppendToDocument / AppendToArray
    elem,       \* the BSON element built from orig, or NoElem
    res,        \* the last as<T>() call on fieldValue: <<T, outcome>>, or NoRes
    cmp,        \* the last comparison fieldValue == rhs: <<rhs, result>>, or NoCmp
    ret,        \* the last get_field or aggregate call and what it gave, or NoRet
    _update_map, \* Update::_update_map
    ucalls,     \* the calls made on the Update builder, oldest first
    _query_map, \* Query::_query_map
    qcalls,     \* the calls made on the Query builder, oldest first
    _pipeline,  \* Aggregation::_pipeline: the stage documents, first stage first
    acalls,     \* the calls made on the Aggregation, oldest first
    _id,        \* Document::_id of the one Document object handed to the collection
    userDoc,    \* the user fields (name, age, email, tags) of that Document object
    stored,     \* the identifiers of the documents the collection holds
    contents,   \* the documents the collection holds, by identifier
    ccalls,     \* the collection operations applied to the Document, oldest first
    gpc,        \* where the GridFSBucket call in progress stands, or "idle"
    source_stream,      \* the std::ifstream of upload_from_file
    uploader,           \* the byte ranges written to the upload stream so far
    _bucket,            \* GridFSBucket::_bucket: the files stored, by id
    downloader,         \* the download stream: its file, file_length and bytes_read
    destination_stream, \* the byte ranges written to the destination file
    instance,   \* how many times the mongocxx::instance of get_instance was constructed
    databases,  \* how many Database objects were constructed
    m_pool,     \* Database::m_pool: the clients of the pool that are checked out
    collections, \* the live Collection objects: the client each holds in _client_entry
    buckets,    \* the live GridFSBucket objects: the client each holds in _client_entry
    tx,         \* the with_transaction call each thread makes
    data,       \* the documents visible in the database
    lastCall    \* the last call on the Collection or of Query::by_id, and its outcome

vars == <<fieldValue, how, host, orig, elem, res, cmp, ret, _update_map, ucalls, _query_map, qcalls,
          _pipeline, acalls, _id, userDoc, stored, contents, ccalls,
          gpc, source_stream, uploader, _bucket, downloader, destination_stream,
          instance, databases, m_pool, collections, buckets, tx, data, lastCall>>
valueVars == <<fieldValue, how, host, orig, elem, res, cmp, ret>>
updateVars == <<_update_map, ucalls>>
queryVars == <<_query_map, qcalls>>
pipelineVars == <<_pipeline, acalls>>
collectionVars == <<_id, userDoc, stored, contents, ccalls, lastCall>>
databaseVars == <<instance, databases, m_pool, collections, buckets, tx, data>>
gridfsVars == <<gpc, source_stream, uploader, _bucket, downloader, destination_stream>>

----------------------------------------------------------------------------
(* FieldValue: struct FieldValue { FieldType type; FieldVariant value; }    *)

FV(type, index, payload) == <<type, index, payload>>
TypeOf(v) == v[1]
IndexOf(v) == v[2]
PayloadOf(v) == v[3]

\* enum class FieldType
FieldTypes ==
    {"FT_ARRAY", "FT_BINARY", "FT_BOOLEAN", "FT_CODE", "FT_DATE", "FT_DECIMAL_128",
     "FT_DOUBLE", "FT_INT_32", "FT_INT_64", "FT_MAXKEY", "FT_MINKEY", "FT_NULL",
     "FT_OBJECT", "FT_OBJECT_ID", "FT_BSON_REG_EXPR", "FT_STRING", "FT_BSON_SYMBOL",
     "FT_TIMESTAMP", "FT_UNDEFINED"}

\* The alternatives of FieldVariant, in declaration order.
VariantIndexes ==
    {"vector_FieldValue", "vector_uint8", "bool", "int32_t", "int64_t", "double",
     "nullptr_t", "oid", "string", "b_date", "b_timestamp", "map"}

\* The alternative the source's comments assign to each kind that has one.
VariantFor(type) ==
    CASE type = "FT_ARRAY" -> "vector_FieldValue"
      [] type = "FT_BINARY" -> "vector_uint8"
      [] type = "FT_BOOLEAN" -> "bool"
      [] type = "FT_INT_32" -> "int32_t"
      [] type = "FT_INT_64" -> "int64_t"
      [] type = "FT_DOUBLE" -> "double"
      [] type = "FT_NULL" -> "nullptr_t"
      [] type = "FT_OBJECT_ID" -> "oid"
      [] type = "FT_STRING" -> "string"
      [] type = "FT_DATE" -> "b_date"
      [] type = "FT_TIMESTAMP" -> "b_timestamp"
      [] type = "FT_OBJECT" -> "map"
      [] OTHER -> "none"

\* An empty std::unordered_map<std::string, FieldValue>.
EmptyMap == [k \in {} |-> <<>>]

\* map[key] = value on an unordered_map.
MapPut(m, key, value) ==
    [k \in (DOMAIN m) \cup {key} |-> IF k = key THEN value ELSE m[k]]

\* std::unordered_map<std::string, FieldValue>{{key, value}}
MapOf(key, value) == MapPut(EmptyMap, key, value)

\* FieldValue() = default: type is FT_UNDEFINED and the variant holds its
\* first alternative, an empty std::vector<FieldValue>.
DefaultFieldValue == FV("FT_UNDEFINED", "vector_FieldValue", <<>>)

\* A double is one of these; NaN is the IEEE not-a-number.
NaN == "NaN"
Doubles == {"0.0", "1.5", NaN}
\* operator== on double.
DoubleEq(a, b) == a = b /\ a # NaN /\ b # NaN

----------------------------------------------------------------------------
(* operator==(const FieldValue&, const FieldValue&)                         *)

RECURSIVE VariantEq(_, _)
\* std::variant operator==: the same alternative, holding equal values.
\* std::vector compares element by element in order, std::unordered_map
\* compares key sets and the values under each key, double compares by IEEE.
VariantEq(a, b) ==
    /\ IndexOf(a) = IndexOf(b)
    /\ CASE IndexOf(a) = "vector_FieldValue" ->
              /\ Len(PayloadOf(a)) = Len(PayloadOf(b))
              /\ \A i \in 1..Len(PayloadOf(a)) :
                    /\ TypeOf(PayloadOf(a)[i]) = TypeOf(PayloadOf(b)[i])
                    /\ VariantEq(PayloadOf(a)[i], PayloadOf(b)[i])
         [] IndexOf(a) = "map" ->
              /\ DOMAIN PayloadOf(a) = DOMAIN PayloadOf(b)
              /\ \A k \in DOMAIN PayloadOf(a) :
                    /\ TypeOf(PayloadOf(a)[k]) = TypeOf(PayloadOf(b)[k])
                    /\ VariantEq(PayloadOf(a)[k], PayloadOf(b)[k])
         [] IndexOf(a) = "double" -> DoubleEq(PayloadOf(a), PayloadOf(b))
         [] OTHER -> PayloadOf(a) = PayloadOf(b)

\* A plausible slip: the tags are not compared.
FieldValueEq_NoTypeCheck(lhs, rhs) == VariantEq(lhs, rhs)

FieldValueEq(lhs, rhs) ==
    IF TypeOf(lhs) # TypeOf(rhs) THEN FALSE ELSE VariantEq(lhs, rhs)

----------------------------------------------------------------------------
(* Host types and the converting constructors                              *)

\* A host type T is a tuple: <<"bool">>, ..., <<"vector", U>>.
T_bool == <<"bool">>
T_int32 == <<"int32_t">>
T_int64 == <<"int64_t">>
T_double == <<"double">>
T_string == <<"string">>
T_oid == <<"oid">>
T_b_date == <<"b_date">>
T_b_timestamp == <<"b_timestamp">>
T_map == <<"map">>
T_bytes == <<"vector_uint8">>
T_enum == <<"enum">>
\* enum class E : uint8_t / uint32_t / int64_t
T_enum_u8 == <<"enum", "uint8_t">>
T_enum_u32 == <<"enum", "uint32_t">>
T_enum_i64 == <<"enum", "int64_t">>
EnumTypes == {T_enum, T_enum_u8, T_enum_u32, T_enum_i64}
\* std::is_enum_v<T>
IsEnum(T) == T \in EnumTypes
\* sizeof(std::underlying_type_t<T>)
EnumWidth(T) == CASE T = T_enum_u8 -> 1 [] T = T_enum_i64 -> 8 [] OTHER -> 4
\* std::is_signed_v<std::underlying_type_t<T>>
EnumSigned(T) == T \in {T_enum, T_enum_i64}

\* An enum value is the object representation of its underlying integer:
\* EnumWidth(T) bytes, least significant first, two's complement.
\* The k low bytes of the sign-extended int32_t n.
BytesOfInt32(n, k) ==
    [i \in 1..k |->
        CASE i = 1 -> n % 256
          [] i = 2 -> (n \div 256) % 256
          [] i = 3 -> (n \div 65536) % 256
          [] i = 4 -> (n \div 16777216) % 256
          [] OTHER -> IF n < 0 THEN 255 ELSE 0]
\* The int32_t whose bytes are the four low bytes of b, b extended by its
\* sign where signed and by zeros where not.
Int32OfBytes(b, signed) ==
    LET fill == IF signed /\ b[Len(b)] >= 128 THEN 255 ELSE 0
        byte(i) == IF i <= Len(b) THEN b[i] ELSE fill
    IN byte(1) + 256 * byte(2) + 65536 * byte(3)
       + 16777216 * (IF byte(4) >= 128 THEN byte(4) - 256 ELSE byte(4))
\* static_cast<int32_t>(val) for an enum value
EnumToInt32(T, val) == Int32OfBytes(val, EnumSigned(T))
\* A plausible slip: the integer is widened as if it were unsigned.
Int32ToEnum_ZeroExtend(T, n) ==
    [i \in 1..EnumWidth(T) |-> IF i <= 4 THEN BytesOfInt32(n, 4)[i] ELSE 0]
\* static_cast<T>(n) for an enum type T
Int32ToEnum(T, n) == BytesOfInt32(n, EnumWidth(T))
T_time_point == <<"time_point">>
T_FieldValue == <<"FieldValue">>
T_User == <<"User">>
T_vector(U) == <<"vector", U>>

IsVector(T) == T[1] = "vector"
\* The types handled by the last branch of as<T>(): T is itself an
\* alternative of FieldVariant.
PlainScalars == {T_bool, T_int32, T_int64, T_double, T_string, T_oid, T_b_date, T_b_timestamp}

\* User (test/user_document): name, age, email, tags.
UserOf(name, age, email, tags) == <<name, age, email, tags>>
DefaultUser == UserOf("", 0, "", <<>>)

\* std::chrono::system_clock counts nanoseconds; b_date counts milliseconds.
TicksPerMilli == 1000000
\* Integer division rounding toward zero (std::chrono::duration_cast).
TruncDiv(a, b) == IF a >= 0 THEN a \div b ELSE -((-a) \div b)
\* A plausible slip: the count of milliseconds is rounded down.
ToBDate_Floor(tp) == tp \div TicksPerMilli
\* bsoncxx::types::b_date{tp}
ToBDate(tp) == TruncDiv(tp, TicksPerMilli)
\* b_date::operator std::chrono::system_clock::time_point()
FromBDate(ms) == ms * TicksPerMilli

RECURSIVE FieldValueOf(_, _)
\* User::to_fields
UserToFields(u) ==
    [k \in {"name", "age", "email", "tags"} |->
        CASE k = "name" -> FV("FT_STRING", "string", u[1])
          [] k = "age" -> FV("FT_INT_32", "int32_t", u[2])
          [] k = "email" -> FV("FT_STRING", "string", u[3])
          [] OTHER -> FieldValueOf(T_vector(T_string), u[4])]

\* type_to_fieldtype<T>::value
TypeToFieldType(T) ==
    CASE T = T_bool -> "FT_BOOLEAN"
      [] T = T_int32 -> "FT_INT_32"
      [] T = T_int64 -> "FT_INT_64"
      [] T = T_double -> "FT_DOUBLE"
      [] T = T_string -> "FT_STRING"
      [] T = T_oid -> "FT_OBJECT_ID"
      [] T = T_b_date -> "FT_DATE"
      [] T = T_b_timestamp -> "FT_TIMESTAMP"
      [] IsEnum(T) -> "FT_INT_32"
      [] T = T_time_point -> "FT_DATE"
      [] T = T_bytes -> "FT_BINARY"
      [] T = T_map -> "FT_OBJECT"
      [] OTHER -> "FT_ARRAY"

\* FieldValue(const T &val): type_to_fieldtype picks the tag, an enum is
\* stored through static_cast<int32_t>, anything else is assigned as it is.
ScalarFieldValue(T, val) ==
    IF IsEnum(T) THEN FV(TypeToFieldType(T), "int32_t", EnumToInt32(T, val))
    ELSE FV(TypeToFieldType(T), T[1], val)

\* A plausible slip: the time point's raw tick count is stored.
TimePointFieldValue_RawCount(tp) == FV("FT_DATE", "int64_t", tp)

\* FieldValue(const std::chrono::system_clock::time_point &tp)
TimePointFieldValue(tp) == FV("FT_DATE", "b_date", ToBDate(tp))

\* FieldValue(const std::vector<uint8_t> &vec)
BytesFieldValue(vec) == FV("FT_BINARY", "vector_uint8", vec)

\* template <typename T> FieldValue(const std::vector<T> &vec)
VectorFieldValue(T, vec) ==
    FV("FT_ARRAY", "vector_FieldValue",
       [i \in 1..Len(vec) |->
           IF T[2] = T_User
           THEN FV("FT_OBJECT", "map", UserToFields(vec[i]))
           ELSE FieldValueOf(T[2], vec[i])])

\* Overload resolution among the converting constructors; a FieldValue is
\* copied.
FieldValueOf(T, x) ==
    CASE T = T_FieldValue -> x
      [] T = T_time_point -> TimePointFieldValue(x)
      [] T = T_bytes -> BytesFieldValue(x)
      [] IsVector(T) -> VectorFieldValue(T, x)
      [] OTHER -> ScalarFieldValue(T, x)

----------------------------------------------------------------------------
(* FieldValue::as<T>()                                                      *)

\* The outcome of a call: a returned value, or an exception leaving it.
Ok(x) == <<"ok", x>>
Throw(what) == <<"throw", what>>
IsOk(r) == r[1] = "ok"
IsThrow(r) == r[1] = "throw"
ValueOf(r) == r[2]

\* T{}: the value-initialized T.
Zero(T) ==
    CASE T = T_bool -> FALSE
      [] T = T_int32 -> 0
      [] T = T_int64 -> 0
      [] IsEnum(T) -> Int32ToEnum(T, 0)
      [] T = T_double -> "0.0"
      [] T = T_string -> ""
      [] T = T_oid -> "oid{}"
      [] T = T_b_date -> 0
      [] T = T_time_point -> 0
      [] T = T_b_timestamp -> <<0, 0>>
      [] T = T_User -> DefaultUser
      [] T = T_FieldValue -> DefaultFieldValue
      [] OTHER -> <<>>

RECURSIVE As(_, _)
\* A plausible slip: the result is sized up front and then pushed to.
AsVector_ResizeThenPush(T, v) ==
    IF TypeOf(v) # "FT_ARRAY" \/ IndexOf(v) # "vector_FieldValue" THEN Ok(<<>>)
    ELSE LET n == Len(PayloadOf(v))
         IN Ok([i \in 1..(2 * n) |->
                   IF i <= n THEN Zero(T[2]) ELSE ValueOf(As(T[2], PayloadOf(v)[i - n]))])

\* The sequence branch of as<T>(): std::get is not guarded, so a value
\* tagged FT_ARRAY that holds another alternative throws.
AsVector(T, v) ==
    IF TypeOf(v) # "FT_ARRAY" THEN Ok(<<>>)
    ELSE IF IndexOf(v) # "vector_FieldValue" THEN Throw("bad_variant_access")
    ELSE LET items == [i \in 1..Len(PayloadOf(v)) |-> As(T[2], PayloadOf(v)[i])]
         IN IF \E i \in 1..Len(items) : IsThrow(items[i])
            THEN Throw("bad_variant_access")
            ELSE Ok([i \in 1..Len(items) |-> ValueOf(items[i])])

\* A plausible slip: the field is found but out_val is not assigned.
GetField_NoAssign(fields, key, T, out_val) ==
    IF key \in DOMAIN fields THEN Ok(<<TRUE, out_val>>) ELSE Ok(<<FALSE, out_val>>)

\* get_field(fields, key, out_val): <<found, out_val'>>, or the exception
\* of as<T>().
GetField(fields, key, T, out_val) ==
    IF key \in DOMAIN fields
    THEN LET r == As(T, fields[key])
         IN IF IsThrow(r) THEN r ELSE Ok(<<TRUE, ValueOf(r)>>)
    ELSE Ok(<<FALSE, out_val>>)

\* User::from_fields on a freshly constructed User.
UserFromFields(fields) ==
    LET name == GetField(fields, "name", T_string, "")
        age == GetField(fields, "age", T_int32, 0)
        email == GetField(fields, "email", T_string, "")
        tags == IF "tags" \in DOMAIN fields
                THEN As(T_vector(T_string), fields["tags"])
                ELSE Ok(<<>>)
    IN IF IsThrow(tags) THEN tags
       ELSE Ok(UserOf(ValueOf(name)[2], ValueOf(age)[2], ValueOf(email)[2], ValueOf(tags)))

\* The Document branch of as<T>(): std::get is not guarded either.
AsDocument(T, v) ==
    IF TypeOf(v) # "FT_OBJECT" THEN Ok(Zero(T))
    ELSE IF IndexOf(v) # "map" THEN Throw("bad_variant_access")
    ELSE UserFromFields(PayloadOf(v))

\* The std::vector<uint8_t> branch of as<T>().
AsBytes(T, v) ==
    IF TypeOf(v) # "FT_BINARY" THEN Ok(Zero(T))
    ELSE IF IndexOf(v) = "vector_uint8" THEN Ok(PayloadOf(v))
    ELSE Ok(Zero(T))

\* The enum branch of as<T>().
AsEnum(T, v) ==
    IF TypeOf(v) # "FT_INT_32" THEN Ok(Zero(T))
    ELSE IF IndexOf(v) = "int32_t" THEN Ok(Int32ToEnum(T, PayloadOf(v)))
    ELSE Ok(Zero(T))

\* The time_point branch of as<T>().
AsTimePoint(T, v) ==
    IF TypeOf(v) # "FT_DATE" THEN Ok(Zero(T))
    ELSE IF IndexOf(v) = "b_date" THEN Ok(FromBDate(PayloadOf(v)))
    ELSE Ok(Zero(T))

\* A plausible slip: numeric widening from the narrower integer.
AsScalar_Widening(T, v) ==
    IF IndexOf(v) = T[1] \/ (T = T_int64 /\ IndexOf(v) = "int32_t")
    THEN Ok(PayloadOf(v))
    ELSE Ok(Zero(T))

\* The last branch of as<T>(): the stored value when the variant holds a T,
\* T{} otherwise; the tag is not consulted.
AsScalar(T, v) ==
    IF IndexOf(v) = T[1] THEN Ok(PayloadOf(v)) ELSE Ok(Zero(T))

As(T, v) ==
    CASE T = T_FieldValue -> Ok(v)
      [] T = T_bytes -> AsBytes(T, v)
      [] IsVector(T) -> AsVector(T, v)
      [] T = T_User -> AsDocument(T, v)
      [] IsEnum(T) -> AsEnum(T, v)
      [] T = T_time_point -> AsTimePoint(T, v)
      [] OTHER -> AsScalar(T, v)

----------------------------------------------------------------------------
(* BSON: a wire element is <<type, value>>; a document is a sequence of    *)
(* <<key, element>> in append order, an array a sequence of elements.      *)

\* The keys the model uses, in one fixed order.
KeyOrder == <<"a", "b", "name", "age", "email", "tags", "$gte", "$lte", "_id", "count", "$sum",
              "from", "localField", "foreignField", "as">>
Reverse(s) == [i \in 1..Len(s) |-> s[Len(s) + 1 - i]]
\* The order in which a range-for visits an unordered_map: unspecified, so
\* the caller picks one of two orders.
IterationOrders == {"forward", "backward"}
KeySeq(m, ord) ==
    LET keys == SelectSeq(KeyOrder, LAMBDA k : k \in DOMAIN m)
    IN IF ord = "forward" THEN keys ELSE Reverse(keys)

RECURSIVE AppendToDocument(_, _, _, _)
RECURSIVE AppendToArray(_, _, _)
RECURSIVE AppendFields(_, _, _, _)
RECURSIVE AppendItems(_, _, _)

\* Another policy for a kind without a case: the field is left out.
AppendFields_SkipUnsupported(doc, map, keys, ord) ==
    IF keys = <<>> \/ IsThrow(doc) THEN doc
    ELSE IF VariantFor(TypeOf(map[Head(keys)])) = "none"
         THEN AppendFields(doc, map, Tail(keys), ord)
         ELSE AppendFields(AppendToDocument(doc, Head(keys), map[Head(keys)], ord),
                           map, Tail(keys), ord)

\* for (const auto &[sub_key, sub_value] : map) AppendToDocument(sub_doc, ...)
AppendFields(doc, map, keys, ord) ==
    IF keys = <<>> \/ IsThrow(doc) THEN doc
    ELSE AppendFields(AppendToDocument(doc, Head(keys), map[Head(keys)], ord),
                      map, Tail(keys), ord)

\* A plausible slip: the loop stops one item early.
AppendItems_StopsEarly(arr, vec, ord) ==
    IF Len(vec) <= 1 \/ IsThrow(arr) THEN arr
    ELSE AppendItems(AppendToArray(arr, Head(vec), ord), Tail(vec), ord)

\* for (const auto &item : vec) AppendToArray(sub_arr, item)
AppendItems(arr, vec, ord) ==
    IF vec = <<>> \/ IsThrow(arr) THEN arr
    ELSE AppendItems(AppendToArray(arr, Head(vec), ord), Tail(vec), ord)

AppendToArray(arr, fv, ord) ==
    LET append(e) == Ok(Append(ValueOf(arr), e))
        get(index, wtype) ==
            IF IndexOf(fv) = index THEN append(<<wtype, PayloadOf(fv)>>)
            ELSE Throw("bad_variant_access")
    IN CASE TypeOf(fv) = "FT_BOOLEAN" -> get("bool", "k_bool")
         [] TypeOf(fv) = "FT_INT_32" -> get("int32_t", "k_int32")
         [] TypeOf(fv) = "FT_INT_64" -> get("int64_t", "k_int64")
         [] TypeOf(fv) = "FT_DOUBLE" -> get("double", "k_double")
         [] TypeOf(fv) = "FT_NULL" -> append(<<"k_null", "b_null">>)
         [] TypeOf(fv) = "FT_STRING" -> get("string", "k_string")
         [] TypeOf(fv) = "FT_OBJECT_ID" -> get("oid", "k_oid")
         [] TypeOf(fv) = "FT_DATE" -> get("b_date", "k_date")
         [] TypeOf(fv) = "FT_TIMESTAMP" -> get("b_timestamp", "k_timestamp")
         [] TypeOf(fv) = "FT_BINARY" ->
               IF IndexOf(fv) = "vector_uint8"
               THEN append(<<"k_binary", <<"binary_sub_type::k_binary", PayloadOf(fv)>>>>)
               ELSE Throw("bad_variant_access")
         [] TypeOf(fv) = "FT_OBJECT" ->
               IF IndexOf(fv) = "map"
               THEN LET sub_doc == AppendFields(Ok(<<>>), PayloadOf(fv),
                                                KeySeq(PayloadOf(fv), ord), ord)
                    IN IF IsThrow(sub_doc) THEN sub_doc
                       ELSE append(<<"k_document", ValueOf(sub_doc)>>)
               ELSE Throw("bad_variant_access")
         [] TypeOf(fv) = "FT_ARRAY" ->
               IF IndexOf(fv) = "vector_FieldValue"
               THEN LET sub_arr == AppendItems(Ok(<<>>), PayloadOf(fv), ord)
                    IN IF IsThrow(sub_arr) THEN sub_arr
                       ELSE append(<<"k_array", ValueOf(sub_arr)>>)
               ELSE Throw("bad_variant_access")
         [] OTHER -> append(<<"k_null", "b_null">>)

AppendToDocument(doc, key, fv, ord) ==
    LET append(e) == Ok(Append(ValueOf(doc), <<key, e>>))
        get(index, wtype) ==
            IF IndexOf(fv) = index THEN append(<<wtype, PayloadOf(fv)>>)
            ELSE Throw("bad_variant_access")
    IN CASE TypeOf(fv) = "FT_BOOLEAN" -> get("bool", "k_bool")
         [] TypeOf(fv) = "FT_INT_32" -> get("int32_t", "k_int32")
         [] TypeOf(fv) = "FT_INT_64" -> get("int64_t", "k_int64")
         [] TypeOf(fv) = "FT_DOUBLE" -> get("double", "k_double")
         [] TypeOf(fv) = "FT_NULL" -> append(<<"k_null", "b_null">>)
         [] TypeOf(fv) = "FT_STRING" -> get("string", "k_string")
         [] TypeOf(fv) = "FT_OBJECT_ID" -> get("oid", "k_oid")
         [] TypeOf(fv) = "FT_DATE" -> get("b_date", "k_date")
         [] TypeOf(fv) = "FT_TIMESTAMP" -> get("b_timestamp", "k_timestamp")
         [] TypeOf(fv) = "FT_BINARY" ->
               IF IndexOf(fv) = "vector_uint8"
               THEN append(<<"k_binary", <<"binary_sub_type::k_binary", PayloadOf(fv)>>>>)
               ELSE Throw("bad_variant_access")
         [] TypeOf(fv) = "FT_OBJECT" ->
               IF IndexOf(fv) = "map"
               THEN LET sub_doc == AppendFields(Ok(<<>>), PayloadOf(fv),
                                                KeySeq(PayloadOf(fv), ord), ord)
                    IN IF IsThrow(sub_doc) THEN sub_doc
                       ELSE append(<<"k_document", ValueOf(sub_doc)>>)
               ELSE Throw("bad_variant_access")
         [] TypeOf(fv) = "FT_ARRAY" ->
               IF IndexOf(fv) = "vector_FieldValue"
               THEN LET sub_arr == AppendItems(Ok(<<>>), PayloadOf(fv), ord)
                    IN IF IsThrow(sub_arr) THEN sub_arr
                       ELSE append(<<"k_array", ValueOf(sub_arr)>>)
               ELSE Throw("bad_variant_access")
         [] OTHER -> append(<<"k_null", "b_null">>)

RECURSIVE fromBsonElement(_)
RECURSIVE DecodeDocument(_, _)
\* The wire types fromBsonElement has a case for.
RecognizedWireTypes ==
    {"k_bool", "k_int32", "k_int64", "k_double", "k_string", "k_oid", "k_date",
     "k_timestamp", "k_binary", "k_document", "k_array"}

\* Another policy for a wire type without a case: the entry is left out.
DecodeDocument_SkipUnknown(map, entries) ==
    IF entries = <<>> THEN map
    ELSE IF Head(entries)[2][1] \notin RecognizedWireTypes
         THEN DecodeDocument(map, Tail(entries))
         ELSE DecodeDocument(MapPut(map, Head(entries)[1], fromBsonElement(Head(entries)[2])),
                             Tail(entries))

\* for (auto inner_element : document) map[key] = fromBsonElement(inner_element)
DecodeDocument(map, entries) ==
    IF entries = <<>> THEN map
    ELSE DecodeDocument(MapPut(map, Head(entries)[1], fromBsonElement(Head(entries)[2])),
                        Tail(entries))

fromBsonElement(element) ==
    CASE element[1] = "k_bool" -> FV("FT_BOOLEAN", "bool", element[2])
      [] element[1] = "k_int32" -> FV("FT_INT_32", "int32_t", element[2])
      [] element[1] = "k_int64" -> FV("FT_INT_64", "int64_t", element[2])
      [] element[1] = "k_double" -> FV("FT_DOUBLE", "double", element[2])
      [] element[1] = "k_string" -> FV("FT_STRING", "string", element[2])
      [] element[1] = "k_oid" -> FV("FT_OBJECT_ID", "oid", element[2])
      [] element[1] = "k_date" -> FV("FT_DATE", "b_date", element[2])
      [] element[1] = "k_timestamp" -> FV("FT_TIMESTAMP", "b_timestamp", element[2])
      [] element[1] = "k_binary" -> FV("FT_BINARY", "vector_uint8", element[2][2])
      [] element[1] = "k_document" ->
            FV("FT_OBJECT", "map", DecodeDocument(EmptyMap, element[2]))
      [] element[1] = "k_array" ->
            FV("FT_ARRAY", "vector_FieldValue",
               [i \in 1..Len(element[2]) |-> fromBsonElement(element[2][i])])
      [] OTHER -> FV("FT_NULL", "nullptr_t", "nullptr")

----------------------------------------------------------------------------
(* The values the value specification draws                                *)

\* Sequences over S of length 0..n.
SeqsUpTo(S, n) == UNION {[1..k -> S] : k \in 0..n}

\* The host values of type T.
RECURSIVE HostValues(_)
HostValues(T) ==
    CASE T = T_bool -> {TRUE, FALSE}
      [] T = T_int32 -> {0, 7}
      [] T = T_int64 -> {0, 7}
      [] T = T_enum -> {BytesOfInt32(0, 4), BytesOfInt32(1, 4), BytesOfInt32(-1, 4)}
      [] T = T_enum_u8 -> {<<0>>, <<255>>}
      [] T = T_enum_u32 -> {<<1, 0, 0, 0>>, <<0, 0, 0, 128>>}
      [] T = T_enum_i64 ->
            {BytesOfInt32(7, 8), BytesOfInt32(-1, 8), <<0, 0, 0, 0, 1, 0, 0, 0>>,
             <<0, 0, 0, 128, 0, 0, 0, 0>>}
      [] T = T_double -> Doubles
      [] T = T_string -> {"", "x"}
      [] T = T_oid -> {"oid1", "oid2"}
      [] T = T_b_date -> {5}
      [] T = T_b_timestamp -> {<<1, 2>>}
      [] T = T_time_point -> {0, 2 * TicksPerMilli, 2 * TicksPerMilli + 1, -1}
      [] T = T_bytes -> SeqsUpTo({1, 2}, MaxLen)
      [] T = T_User -> {UserOf("A", 3, "a@a", <<"dev">>)}
      [] IsVector(T) ->
            SeqsUpTo(IF T[2] = T_bytes THEN {<<>>, <<1, 2>>}
                     ELSE IF IsVector(T[2]) THEN {<<>>, <<7>>, <<0, 7>>}
                     ELSE HostValues(T[2]), MaxLen)
      [] OTHER -> {}

\* The host types a FieldValue is converted from.
HostTypes ==
    {T_bool, T_int32, T_int64, T_enum, T_enum_u8, T_enum_u32, T_enum_i64, T_double, T_string, T_oid, T_b_date,
     T_b_timestamp, T_time_point, T_bytes,
     T_vector(T_bool), T_vector(T_int32), T_vector(T_int64), T_vector(T_string),
     T_vector(T_oid), T_vector(T_bytes), T_vector(T_User),
     T_vector(T_vector(T_int32))}

\* The User documents that are serialized.
Users ==
    {UserOf(name, age, "a@a", tags) :
        name \in {"", "A"}, age \in {0, 99}, tags \in SeqsUpTo({"a", "b"}, MaxLen)}

\* The types as<T>() is asked for.
AsTypes ==
    HostTypes \cup {T_map, T_User, T_FieldValue, T_vector(T_vector(T_string))}

Bool(b) == FV("FT_BOOLEAN", "bool", b)
Int32(n) == FV("FT_INT_32", "int32_t", n)
Int64(n) == FV("FT_INT_64", "int64_t", n)
Double(d) == FV("FT_DOUBLE", "double", d)
String(str) == FV("FT_STRING", "string", str)
Null == FV("FT_NULL", "nullptr_t", "nullptr")
Array(vec) == FV("FT_ARRAY", "vector_FieldValue", vec)
Object(map) == FV("FT_OBJECT", "map", map)

\* One value of every recognized scalar kind, and a NaN.
Leaves ==
    {Bool(TRUE), Int32(7), Int64(7), Double("1.5"), Double(NaN), String("x"), Null,
     FV("FT_OBJECT_ID", "oid", "oid1"), FV("FT_DATE", "b_date", 5),
     FV("FT_TIMESTAMP", "b_timestamp", <<1, 2>>),
     FV("FT_BINARY", "vector_uint8", <<>>), FV("FT_BINARY", "vector_uint8", <<1, 2>>)}
FewLeaves == {Int32(7), String("x"), Double(NaN), Null}

\* Arrays and Objects of leaves, the empty ones included.
Level1 ==
    {Array(vec) : vec \in SeqsUpTo(FewLeaves, MaxLen)}
    \cup {Object(map) : map \in UNION {[K -> FewLeaves] : K \in SUBSET {"a", "b"}}}

\* Arrays and Objects that hold Arrays and Objects.
Level2 ==
    {Array(<<x>>) : x \in Level1} \cup {Array(<<Int32(7), x>>) : x \in Level1}
    \cup {Object(MapOf("a", x)) : x \in Level1}
    \cup {Object(MapPut(MapOf("b", String("x")), "a", x)) : x \in Level1}
Level3 == {Array(<<Object(MapOf("a", x))>>) : x \in Level2}

\* A payload for each alternative of the variant.
SamplePayload(index) ==
    CASE index = "vector_FieldValue" -> <<Int32(7)>>
      [] index = "vector_uint8" -> <<1>>
      [] index = "bool" -> TRUE
      [] index = "int32_t" -> 7
      [] index = "int64_t" -> 7
      [] index = "double" -> "1.5"
      [] index = "nullptr_t" -> "nullptr"
      [] index = "oid" -> "oid1"
      [] index = "string" -> "x"
      [] index = "b_date" -> 5
      [] index = "b_timestamp" -> <<1, 2>>
      [] OTHER -> MapOf("a", Int32(7))

\* FieldValue(type, variant) with every tag over every alternative.
AnyTagged == {FV(type, index, SamplePayload(index)) : type \in FieldTypes, index \in VariantIndexes}

\* Values whose tag and alternative disagree, or whose kind is not encoded.
IllTagged ==
    {FV("FT_ARRAY", "int32_t", 7), FV("FT_STRING", "int32_t", 7), FV("FT_OBJECT", "string", "x"),
     FV("FT_INT_32", "string", "x"), FV("FT_CODE", "string", "x"), DefaultFieldValue,
     FV("FT_ARRAY", "vector_FieldValue", <<FV("FT_ARRAY", "map", EmptyMap)>>)}

\* Values of kinds the encoder has no case for, two levels down.
UnsupportedNested ==
    {Array(<<Object(MapPut(MapOf("a", FV("FT_CODE", "string", "x")), "b", Int32(7)))>>),
     Object(MapPut(MapOf("a", Array(<<FV("FT_BSON_REG_EXPR", "string", "x"), String("x")>>)),
                   "b", FV("FT_MAXKEY", "nullptr_t", "nullptr"))),
     Array(<<Array(<<DefaultFieldValue, Int64(7), FV("FT_DECIMAL_128", "string", "1")>>)>>)}

\* What the public two-argument constructor is given.
TwoArgValues ==
    Leaves \cup Level1 \cup Level2 \cup Level3 \cup AnyTagged \cup UnsupportedNested
    \cup {Array(<<Int32(7), x>>) : x \in IllTagged}
    \cup {Object(MapOf("tags", x)) : x \in IllTagged}

\* What == is asked about.
ComparedValues ==
    {Int32(1), Int64(1), Int32(7), String("x"), FV("FT_CODE", "string", "x"),
     Double("1.5"), Double(NaN), DefaultFieldValue,
     Array(<<Int32(7), String("x")>>), Array(<<String("x"), Int32(7)>>),
     Object(MapPut(MapOf("a", Int32(7)), "b", String("x"))),
     Object(MapPut(MapOf("b", String("x")), "a", Int32(7))),
     Array(<<Object(MapPut(MapOf("b", String("x")), "a", Array(<<Int32(7), String("x")>>)))>>),
     Array(<<Int32(7), Double(NaN)>>)}

\* Wire elements that no encoder of this library produced.
ForeignElements ==
    {<<"k_regex", "x">>, <<"k_code", "x">>, <<"k_decimal128", "1">>, <<"k_maxkey", "max">>,
     <<"k_minkey", "min">>, <<"k_undefined", "u">>, <<"k_symbol", "x">>, <<"k_null", "b_null">>,
     <<"k_binary", <<"binary_sub_type::k_uuid", <<1, 2>>>>>>,
     <<"k_document", << <<"a", <<"k_regex", "x">>>>, <<"b", <<"k_int32", 7>>>> >> >>,
     <<"k_array", << <<"k_int32", 7>>, <<"k_maxkey", "max">>, <<"k_string", "x">> >> >>,
     <<"k_document", << <<"a", <<"k_array", << <<"k_symbol", "x">> >> >> >> >> >>}

----------------------------------------------------------------------------
(* The value specification: construct, convert, compare, encode, decode    *)

NoHost == <<>>
NoOrig == <<>>
NoElem == <<>>
NoRes == <<>>
NoCmp == <<>>
NoRet == <<>>
\* No source file is open; no download stream has been opened.
NoStream == [open |-> FALSE, length |-> 0, pos |-> 0, gcount |-> 0]
Threads == {"t1", "t2"}
NoTransaction ==
    [pc |-> "idle", client |-> 0, staged |-> {}, direct |-> {},
     callback |-> "none", result |-> "none"]
NoLast ==
    [op |-> "none", outcome |-> "none", count |-> 0, docs |-> <<>>, input |-> <<>>,
     inserted_ids |-> <<>>, id_str |-> <<>>, query |-> <<>>]
NoDownload == [file_id |-> 0, file_length |-> 0, bytes_read |-> 0]

UpdateIdle == _update_map = EmptyMap /\ ucalls = <<>>
QueryIdle == _query_map = EmptyMap /\ qcalls = <<>>

\* FieldValue fv;
Init ==
    /\ fieldValue = DefaultFieldValue
    /\ how = "default"
    /\ host = NoHost
    /\ orig = NoOrig
    /\ elem = NoElem
    /\ res = NoRes
    /\ cmp = NoCmp
    /\ ret = NoRet
    /\ UpdateIdle
    /\ QueryIdle
    /\ _pipeline = <<>> /\ acalls = <<>>
    /\ _id = DefaultFieldValue /\ userDoc = DefaultUser /\ stored = {} /\ contents = EmptyMap
    /\ ccalls = <<>>
    /\ gpc = "idle" /\ source_stream = NoStream /\ uploader = <<>> /\ _bucket = <<>>
    /\ downloader = NoDownload /\ destination_stream = <<>>
    /\ instance = 0 /\ databases = 0 /\ m_pool = {}
    /\ collections = <<>> /\ buckets = <<>>
    /\ tx = [t \in Threads |-> NoTransaction]
    /\ data = {} /\ lastCall = NoLast

\* Nothing has been done with fieldValue yet.
Fresh == orig = NoOrig /\ elem = NoElem /\ res = NoRes /\ cmp = NoCmp /\ ret = NoRet

\* fv = FieldValue(x); for a host value x of type T
FromHost ==
    /\ how = "default" /\ Fresh
    /\ \E T \in HostTypes : \E x \in HostValues(T) :
       /\ fieldValue' = FieldValueOf(T, x)
       /\ how' = "host"
       /\ host' = <<T, x>>
       /\ UNCHANGED <<orig, elem, res, cmp, ret, updateVars, queryVars, pipelineVars, collectionVars, databaseVars, gridfsVars>>

\* fv = FieldValue(FieldType::FT_OBJECT, d.to_fields()); for a User d
ToFields ==
    /\ how = "default" /\ Fresh
    /\ \E d \in Users :
       /\ fieldValue' = FV("FT_OBJECT", "map", UserToFields(d))
       /\ how' = "to_fields"
       /\ host' = <<T_User, d>>
       /\ UNCHANGED <<orig, elem, res, cmp, ret, updateVars, queryVars, pipelineVars, collectionVars, databaseVars, gridfsVars>>

\* fv = FieldValue(type, variant);
TwoArg ==
    /\ how = "default" /\ Fresh
    /\ \E v \in TwoArgValues :
       /\ fieldValue' = v
       /\ how' = "two_arg"
       /\ UNCHANGED <<host, orig, elem, res, cmp, ret, updateVars, queryVars, pipelineVars, collectionVars, databaseVars, gridfsVars>>

\* fv = fromBsonElement(element); on an element read from the database
DecodeForeign ==
    /\ how = "default" /\ Fresh
    /\ \E element \in ForeignElements :
       /\ fieldValue' = fromBsonElement(element)
       /\ how' = "decode_foreign"
       /\ host' = <<"BsonElement", element>>
       /\ UNCHANGED <<orig, elem, res, cmp, ret, updateVars, queryVars, pipelineVars, collectionVars, databaseVars, gridfsVars>>

\* fv.as<T>()
CallAs == \E T \in AsTypes :
    /\ Fresh
    /\ res' = <<T, As(T, fieldValue)>>
    /\ orig' = NoOrig
    /\ elem' = NoElem
    /\ cmp' = NoCmp
    /\ UNCHANGED <<fieldValue, how, host, ret, updateVars, queryVars, pipelineVars, collectionVars, databaseVars, gridfsVars>>

\* fv == rhs
Compare == \E rhs \in ComparedValues :
    /\ Fresh
    /\ cmp' = <<rhs, FieldValueEq(fieldValue, rhs)>>
    /\ orig' = NoOrig
    /\ elem' = NoElem
    /\ res' = NoRes
    /\ UNCHANGED <<fieldValue, how, host, ret, updateVars, queryVars, pipelineVars, collectionVars, databaseVars, gridfsVars>>

\* AppendToDocument(doc, key, fv) on an empty builder
EncodeUnderKey == \E key \in {"a"} : \E ord \in IterationOrders :
    /\ Fresh
    /\ orig' = fieldValue
    /\ elem' = <<"document", AppendToDocument(Ok(<<>>), key, fieldValue, ord)>>
    /\ res' = NoRes
    /\ cmp' = NoCmp
    /\ UNCHANGED <<fieldValue, how, host, ret, updateVars, queryVars, pipelineVars, collectionVars, databaseVars, gridfsVars>>

\* AppendToArray(arr, fv) on an empty builder
EncodeInArray == \E ord \in IterationOrders :
    /\ Fresh
    /\ orig' = fieldValue
    /\ elem' = <<"array", AppendToArray(Ok(<<>>), fieldValue, ord)>>
    /\ res' = NoRes
    /\ cmp' = NoCmp
    /\ UNCHANGED <<fieldValue, how, host, ret, updateVars, queryVars, pipelineVars, collectionVars, databaseVars, gridfsVars>>

\* The element the builder holds after the append.
BuiltElement ==
    IF elem[1] = "document" THEN ValueOf(elem[2])[1][2] ELSE ValueOf(elem[2])[1]

\* fromBsonElement(element) on the element just built
Decode ==
    /\ elem # NoElem
    /\ how # "decode"
    /\ IsOk(elem[2])
    /\ fieldValue' = fromBsonElement(BuiltElement)
    /\ how' = "decode"
    /\ host' = NoHost
    /\ UNCHANGED <<orig, elem, res, cmp, ret, updateVars, queryVars, pipelineVars, collectionVars, databaseVars, gridfsVars>>

\* What out_val holds before get_field is called: the caller's own value.
Prior == <<"prior">>

\* get_field(fields, key, out_val) on fields = { "k": fv }
CallGetField == \E T \in AsTypes : \E key \in {"k", "missing"} :
    /\ Fresh
    /\ ret' = <<"get_field", T, key, GetField(MapOf("k", fieldValue), key, T, Prior)>>
    /\ UNCHANGED <<fieldValue, how, host, orig, elem, res, cmp, updateVars, queryVars, pipelineVars, collectionVars, databaseVars, gridfsVars>>

\* Result documents of an aggregation: the $group result of
\* test_aggregation_pipeline, a document that kept its ObjectId, groups keyed
\* by a string and by null, and a document without _id.
AggregateViews ==
    {<<<<"_id", <<"k_int32", 50>>>>, <<"count", <<"k_int32", 2>>>>>>,
     <<<<"_id", <<"k_oid", 1>>>>, <<"count", <<"k_int32", 1>>>>>>,
     <<<<"count", <<"k_int32", 1>>>>, <<"_id", <<"k_oid", 2>>>>>>,
     <<<<"_id", <<"k_string", "x">>>>, <<"count", <<"k_int32", 3>>>>>>,
     <<<<"_id", <<"k_null", "b_null">>>>, <<"count", <<"k_int32", 3>>>>>>,
     <<<<"count", <<"k_int32", 3>>>>>>}

RECURSIVE AggregateFields(_, _)
\* A plausible slip (the loop of from_bson_doc): the key alone decides.
AggregateFields_KeyOnly(doc, view) ==
    IF view = <<>> THEN doc
    ELSE IF Head(view)[1] = "_id"
         THEN AggregateFields(<<FieldValueOf(T_oid, Head(view)[2][2]), doc[2]>>, Tail(view))
         ELSE AggregateFields(<<doc[1], MapPut(doc[2], Head(view)[1],
                                               fromBsonElement(Head(view)[2]))>>, Tail(view))

\* The loop of Collection::aggregate over the elements of one result:
\* <<doc._id, fields>> after it.
AggregateFields(doc, view) ==
    IF view = <<>> THEN doc
    ELSE IF Head(view)[1] = "_id" /\ Head(view)[2][1] = "k_oid"
         THEN AggregateFields(<<FieldValueOf(T_oid, Head(view)[2][2]), doc[2]>>, Tail(view))
         ELSE AggregateFields(<<doc[1], MapPut(doc[2], Head(view)[1],
                                               fromBsonElement(Head(view)[2]))>>, Tail(view))

\* AgeResult::from_fields on a fresh AgeResult: <<age, count>>; a member the
\* fields do not name keeps the value it had, which nothing has set.
AgeResultFromFields(fields) ==
    <<IF "_id" \in DOMAIN fields THEN As(T_int32, fields["_id"]) ELSE Ok("indeterminate"),
      IF "count" \in DOMAIN fields THEN As(T_int32, fields["count"]) ELSE Ok("indeterminate")>>

\* Collection::aggregate<AgeResult>, for one document of the cursor
aggregate == \E view \in AggregateViews :
    /\ how = "default" /\ Fresh
    /\ LET doc == AggregateFields(<<DefaultFieldValue, EmptyMap>>, view)
       IN ret' = <<"aggregate", view, doc[1], doc[2], AgeResultFromFields(doc[2])>>
    /\ UNCHANGED <<fieldValue, how, host, orig, elem, res, cmp, updateVars, queryVars, pipelineVars, collectionVars, databaseVars, gridfsVars>>

Next ==
    \/ FromHost
    \/ CallGetField
    \/ aggregate
    \/ ToFields
    \/ TwoArg
    \/ CallAs
    \/ Compare
    \/ EncodeUnderKey
    \/ EncodeInArray
    \/ Decode
    \/ DecodeForeign

Spec == Init /\ [][Next]_vars

----------------------------------------------------------------------------
(* Update: the fluent builder of update documents                          *)

\* A plausible slip: the operator's entry is replaced by a fresh
\* single-field map on every call.
add_operator_field_Overwrite(map, op, field, fv) ==
    MapPut(map, op, FieldValueOf(T_map, MapOf(field, fv)))

\* A plausible slip: a new operator gets the value itself, not a field map.
add_operator_field_Bare(map, op, field, fv) ==
    IF op \notin DOMAIN map
    THEN MapPut(map, op, fv)
    ELSE IF IndexOf(map[op]) = "map"
         THEN MapPut(map, op, FV(TypeOf(map[op]), "map", MapPut(PayloadOf(map[op]), field, fv)))
         ELSE map

\* Update::add_operator_field: the map after the call.
add_operator_field(map, op, field, fv) ==
    IF op \notin DOMAIN map
    THEN MapPut(map, op, FieldValueOf(T_map, MapOf(field, fv)))
    ELSE IF IndexOf(map[op]) = "map"
         THEN MapPut(map, op, FV(TypeOf(map[op]), "map", MapPut(PayloadOf(map[op]), field, fv)))
         ELSE map

\* One more call is allowed on the builder.
UpdateOpen == Len(ucalls) < MaxUpdateCalls

\* Update::set
set == \E field \in {"a", "b"} : \E value \in {1, 2} :
    /\ UpdateOpen
    /\ _update_map' = add_operator_field(_update_map, "$set", field, FieldValueOf(T_int32, value))
    /\ ucalls' = Append(ucalls, <<"set", "$set", field, FieldValueOf(T_int32, value)>>)
    /\ UNCHANGED <<valueVars, queryVars, pipelineVars, collectionVars, databaseVars, gridfsVars>>

\* Update::inc
inc == \E field \in {"x"} : \E amount \in {1, 2} :
    /\ UpdateOpen
    /\ _update_map' = add_operator_field(_update_map, "$inc", field, FieldValueOf(T_int32, amount))
    /\ ucalls' = Append(ucalls, <<"inc", "$inc", field, FieldValueOf(T_int32, amount)>>)
    /\ UNCHANGED <<valueVars, queryVars, pipelineVars, collectionVars, databaseVars, gridfsVars>>

\* Update::mul
mul == \E field \in {"x"} : \E amount \in {2} :
    /\ UpdateOpen
    /\ _update_map' = add_operator_field(_update_map, "$mul", field, FieldValueOf(T_int32, amount))
    /\ ucalls' = Append(ucalls, <<"mul", "$mul", field, FieldValueOf(T_int32, amount)>>)
    /\ UNCHANGED <<valueVars, queryVars, pipelineVars, collectionVars, databaseVars, gridfsVars>>

\* Update::min
min == \E field \in {"x"} : \E value \in {1} :
    /\ UpdateOpen
    /\ _update_map' = add_operator_field(_update_map, "$min", field, FieldValueOf(T_int32, value))
    /\ ucalls' = Append(ucalls, <<"min", "$min", field, FieldValueOf(T_int32, value)>>)
    /\ UNCHANGED <<valueVars, queryVars, pipelineVars, collectionVars, databaseVars, gridfsVars>>

\* Update::max
max == \E field \in {"x"} : \E value \in {2} :
    /\ UpdateOpen
    /\ _update_map' = add_operator_field(_update_map, "$max", field, FieldValueOf(T_int32, value))
    /\ ucalls' = Append(ucalls, <<"max", "$max", field, FieldValueOf(T_int32, value)>>)
    /\ UNCHANGED <<valueVars, queryVars, pipelineVars, collectionVars, databaseVars, gridfsVars>>

\* Update::push
push == \E field \in {"tags", "a"} : \E value \in {"senior"} :
    /\ UpdateOpen
    /\ _update_map' = add_operator_field(_update_map, "$push", field, FieldValueOf(T_string, value))
    /\ ucalls' = Append(ucalls, <<"push", "$push", field, FieldValueOf(T_string, value)>>)
    /\ UNCHANGED <<valueVars, queryVars, pipelineVars, collectionVars, databaseVars, gridfsVars>>

\* A plausible slip: the key is written without its dollar sign.
EachMap_NoDollar(T, values) == MapPut(EmptyMap, "each", FieldValueOf(T_vector(T), values))

\* { "$each": [val1, val2] }
EachMap(T, values) == MapPut(EmptyMap, "$each", FieldValueOf(T_vector(T), values))

\* Update::push_each
push_each == \E field \in {"tags"} : \E values \in {<<"p", "q">>} :
    /\ UpdateOpen
    /\ _update_map' = add_operator_field(_update_map, "$push", field,
                                         FieldValueOf(T_map, EachMap(T_string, values)))
    /\ ucalls' = Append(ucalls, <<"push_each", "$push", field,
                                  FieldValueOf(T_map, EachMap(T_string, values)), values>>)
    /\ UNCHANGED <<valueVars, queryVars, pipelineVars, collectionVars, databaseVars, gridfsVars>>

\* Update::pull
pull == \E field \in {"tags", "a"} : \E value \in {"senior"} :
    /\ UpdateOpen
    /\ _update_map' = add_operator_field(_update_map, "$pull", field, FieldValueOf(T_string, value))
    /\ ucalls' = Append(ucalls, <<"pull", "$pull", field, FieldValueOf(T_string, value)>>)
    /\ UNCHANGED <<valueVars, queryVars, pipelineVars, collectionVars, databaseVars, gridfsVars>>

\* Update::pull_each
pull_each == \E field \in {"a"} : \E values \in {<<"q">>} :
    /\ UpdateOpen
    /\ _update_map' = add_operator_field(_update_map, "$pull", field,
                                         FieldValueOf(T_map, EachMap(T_string, values)))
    /\ ucalls' = Append(ucalls, <<"pull_each", "$pull", field,
                                  FieldValueOf(T_map, EachMap(T_string, values)), values>>)
    /\ UNCHANGED <<valueVars, queryVars, pipelineVars, collectionVars, databaseVars, gridfsVars>>

\* Update::pullAll
pullAll == \E field \in {"tags"} : \E values \in {<<"p", "q">>} :
    /\ UpdateOpen
    /\ _update_map' = add_operator_field(_update_map, "$pullAll", field,
                                         FieldValueOf(T_vector(T_string), values))
    /\ ucalls' = Append(ucalls, <<"pullAll", "$pullAll", field,
                                  FieldValueOf(T_vector(T_string), values)>>)
    /\ UNCHANGED <<valueVars, queryVars, pipelineVars, collectionVars, databaseVars, gridfsVars>>

\* Update::add_to_set
add_to_set == \E field \in {"tags"} : \E value \in {"senior"} :
    /\ UpdateOpen
    /\ _update_map' = add_operator_field(_update_map, "$addToSet", field, FieldValueOf(T_string, value))
    /\ ucalls' = Append(ucalls, <<"add_to_set", "$addToSet", field, FieldValueOf(T_string, value)>>)
    /\ UNCHANGED <<valueVars, queryVars, pipelineVars, collectionVars, databaseVars, gridfsVars>>

\* A plausible slip: the name of the operation is not checked.
bit_Unchecked == \E field \in {"flags", "a"} : \E operation \in {"and", "or", "xor", "nand"} :
                 \E value \in {1} :
    /\ UpdateOpen
    /\ _update_map' = add_operator_field(_update_map, "$bit", field,
            FieldValueOf(T_map, MapOf(operation, FieldValueOf(T_int32, value))))
    /\ ucalls' = Append(ucalls, <<"bit", "$bit", field,
            FieldValueOf(T_map, MapOf(operation, FieldValueOf(T_int32, value))),
            <<operation, value>>>>)
    /\ UNCHANGED <<valueVars, queryVars, pipelineVars, collectionVars, databaseVars, gridfsVars>>

\* Update::bit: an operation other than and, or, xor returns at once.
bit == \E field \in {"flags", "a"} : \E operation \in {"and", "or", "xor", "nand"} :
       \E value \in {1} :
    /\ UpdateOpen
    /\ IF operation # "and" /\ operation # "or" /\ operation # "xor"
       THEN /\ _update_map' = _update_map
            /\ ucalls' = Append(ucalls, <<"bit", "none", field, FieldValueOf(T_string, operation),
                                          <<operation, value>>>>)
       ELSE /\ _update_map' = add_operator_field(_update_map, "$bit", field,
                    FieldValueOf(T_map, MapOf(operation, FieldValueOf(T_int32, value))))
            /\ ucalls' = Append(ucalls, <<"bit", "$bit", field,
                    FieldValueOf(T_map, MapOf(operation, FieldValueOf(T_int32, value))),
                    <<operation, value>>>>)
    /\ UNCHANGED <<valueVars, queryVars, pipelineVars, collectionVars, databaseVars, gridfsVars>>

\* Update::pop
pop == \E field \in {"tags"} : \E direction \in {-1, 1} :
    /\ UpdateOpen
    /\ _update_map' = add_operator_field(_update_map, "$pop", field, FieldValueOf(T_int32, direction))
    /\ ucalls' = Append(ucalls, <<"pop", "$pop", field, FieldValueOf(T_int32, direction)>>)
    /\ UNCHANGED <<valueVars, queryVars, pipelineVars, collectionVars, databaseVars, gridfsVars>>

\* Update::rename
rename == \E old_name \in {"a"} : \E new_name \in {"b"} :
    /\ UpdateOpen
    /\ _update_map' = add_operator_field(_update_map, "$rename", old_name, FieldValueOf(T_string, new_name))
    /\ ucalls' = Append(ucalls, <<"rename", "$rename", old_name, FieldValueOf(T_string, new_name)>>)
    /\ UNCHANGED <<valueVars, queryVars, pipelineVars, collectionVars, databaseVars, gridfsVars>>

\* Update::current_date
current_date == \E field \in {"seen"} : \E as_timestamp \in BOOLEAN :
    /\ UpdateOpen
    /\ _update_map' = add_operator_field(_update_map, "$currentDate", field,
                                         FieldValueOf(T_bool, as_timestamp))
    /\ ucalls' = Append(ucalls, <<"current_date", "$currentDate", field,
                                  FieldValueOf(T_bool, as_timestamp)>>)
    /\ UNCHANGED <<valueVars, queryVars, pipelineVars, collectionVars, databaseVars, gridfsVars>>

\* Update::unset: the value is FieldValue("").
unset == \E field \in {"a"} :
    /\ UpdateOpen
    /\ _update_map' = add_operator_field(_update_map, "$unset", field, FieldValueOf(T_string, ""))
    /\ ucalls' = Append(ucalls, <<"unset", "$unset", field, FieldValueOf(T_string, "")>>)
    /\ UNCHANGED <<valueVars, queryVars, pipelineVars, collectionVars, databaseVars, gridfsVars>>

UpdateNext ==
    \/ set
    \/ inc
    \/ mul
    \/ min
    \/ max
    \/ push
    \/ push_each
    \/ pull
    \/ pull_each
    \/ pullAll
    \/ add_to_set
    \/ bit
    \/ pop
    \/ rename
    \/ current_date
    \/ unset

\* Update update; followed by at most MaxUpdateCalls chained calls.
SpecUpdate == Init /\ [][UpdateNext]_vars

\* The calls that reached add_operator_field with operator op.
CallsOf(op) == {i \in 1..Len(ucalls) : ucalls[i][2] = op}
\* The fields ever passed to op.
FieldsOf(op) == {ucalls[i][3] : i \in CallsOf(op)}
\* The value of the most recent op call on field.
LatestValue(op, field) ==
    LET last == CHOOSE i \in CallsOf(op) :
                    /\ ucalls[i][3] = field
                    /\ \A j \in CallsOf(op) : ucalls[j][3] = field => j <= i
    IN ucalls[last][4]

\* C1: the update map holds exactly one entry per operator that was called,
\* and the entry for op is an Object mapping each field ever passed to op to
\* the value of the most recent op call on that field.
C1_UpdateMerge ==
    /\ DOMAIN _update_map = {ucalls[i][2] : i \in 1..Len(ucalls)} \ {"none"}
    /\ \A op \in DOMAIN _update_map :
          /\ TypeOf(_update_map[op]) = "FT_OBJECT"
          /\ IndexOf(_update_map[op]) = "map"
          /\ DOMAIN PayloadOf(_update_map[op]) = FieldsOf(op)
          /\ \A field \in FieldsOf(op) :
                PayloadOf(_update_map[op])[field] = LatestValue(op, field)

C1_Witness ==
    /\ Len(ucalls) = 3
    /\ ucalls[1][1] = "set" /\ ucalls[2][1] = "set" /\ ucalls[3][1] = "set"
    /\ DOMAIN _update_map = {"$set"}
    /\ PayloadOf(_update_map["$set"]) = [k \in {"a", "b"} |-> Int32(2)]
    /\ ucalls[1][4] = Int32(1)

\* The operator names the Update methods store under.
UpdateOperators ==
    {"$set", "$inc", "$mul", "$min", "$max", "$push", "$pull", "$pullAll", "$addToSet",
     "$bit", "$pop", "$rename", "$currentDate", "$unset"}

\* C29: every top-level entry of the update map has an operator name as
\* key and an Object holding a non-empty field map as value, and no call
\* that reaches add_operator_field is dropped: its field holds its value
\* under its operator right after the call.
C29_OperatorObjects ==
    /\ [](\A op \in DOMAIN _update_map :
            /\ op \in UpdateOperators
            /\ TypeOf(_update_map[op]) = "FT_OBJECT"
            /\ IndexOf(_update_map[op]) = "map"
            /\ DOMAIN PayloadOf(_update_map[op]) # {})
    /\ [][(ucalls' # ucalls /\ ucalls'[Len(ucalls')][2] # "none")
           => LET call == ucalls'[Len(ucalls')]
              IN /\ call[2] \in DOMAIN _update_map'
                 /\ IndexOf(_update_map'[call[2]]) = "map"
                 /\ call[3] \in DOMAIN PayloadOf(_update_map'[call[2]])
                 /\ PayloadOf(_update_map'[call[2]])[call[3]] = call[4]]_vars

\* set, then unset, then a second set: the operator exists and holds a map.
C29_Witness ==
    /\ Len(ucalls) = 3
    /\ ucalls[1][1] = "set" /\ ucalls[2][1] = "unset" /\ ucalls[3][1] = "set"
    /\ ucalls[1][3] # ucalls[3][3]
    /\ DOMAIN _update_map = {"$set", "$unset"}
    /\ DOMAIN PayloadOf(_update_map["$set"]) = {"a", "b"}

\* C18: push_each (pull_each) stores under $push ($pull) the entry
\* field -> {$each: Array of the converted values in input order}, replaces
\* an earlier entry for that field, keeps the other fields under the
\* operator and leaves every other operator's entry as it was.
C18_EachMerge ==
    [][(ucalls' # ucalls /\ ucalls'[Len(ucalls')][1] \in {"push_each", "pull_each"})
       => LET call == ucalls'[Len(ucalls')]
              op == IF call[1] = "push_each" THEN "$push" ELSE "$pull"
              field == call[3]
              values == call[5]
              before == IF op \in DOMAIN _update_map THEN PayloadOf(_update_map[op]) ELSE EmptyMap
          IN /\ DOMAIN _update_map' = DOMAIN _update_map \cup {op}
             /\ \A other \in DOMAIN _update_map \ {op} : _update_map'[other] = _update_map[other]
             /\ TypeOf(_update_map'[op]) = "FT_OBJECT"
             /\ DOMAIN PayloadOf(_update_map'[op]) = DOMAIN before \cup {field}
             /\ PayloadOf(_update_map'[op])[field]
                   = Object(MapOf("$each", Array([i \in 1..Len(values) |-> String(values[i])])))
             /\ \A other \in DOMAIN before \ {field} :
                   PayloadOf(_update_map'[op])[other] = before[other]]_vars

C18_Witness ==
    /\ Len(ucalls) = 3
    /\ ucalls[1][1] = "push" /\ ucalls[1][3] = "a"
    /\ ucalls[2][1] = "push" /\ ucalls[2][3] = "tags"
    /\ ucalls[3][1] = "push_each"
    /\ _update_map = MapOf("$push", Object(MapPut(MapOf("a", String("senior")), "tags",
                          Object(MapOf("$each", Array(<<String("p"), String("q")>>))))))

\* C17: a bit call whose operation is not and, or, xor leaves the whole
\* update map as it was; one whose operation is among them stores
\* field -> {operation: Int32 value} under $bit, keeps the other fields
\* under $bit and leaves every other operator's entry as it was.
C17_BitNoOp ==
    [][(ucalls' # ucalls /\ ucalls'[Len(ucalls')][1] = "bit")
       => LET call == ucalls'[Len(ucalls')]
              field == call[3]
              operation == call[5][1]
              value == call[5][2]
          IN IF operation \notin {"and", "or", "xor"}
             THEN _update_map' = _update_map
             ELSE /\ DOMAIN _update_map' = DOMAIN _update_map \cup {"$bit"}
                  /\ \A op \in DOMAIN _update_map \ {"$bit"} : _update_map'[op] = _update_map[op]
                  /\ TypeOf(_update_map'["$bit"]) = "FT_OBJECT"
                  /\ PayloadOf(_update_map'["$bit"])[field] = Object(MapOf(operation, Int32(value)))
                  /\ DOMAIN PayloadOf(_update_map'["$bit"])
                        = {field} \cup (IF "$bit" \in DOMAIN _update_map
                                        THEN DOMAIN PayloadOf(_update_map["$bit"]) ELSE {})
                  /\ "$bit" \in DOMAIN _update_map =>
                        \A other \in DOMAIN PayloadOf(_update_map["$bit"]) \ {field} :
                            PayloadOf(_update_map'["$bit"])[other]
                                = PayloadOf(_update_map["$bit"])[other]]_vars

C17_Witness ==
    /\ Len(ucalls) = 3
    /\ ucalls[1][1] = "set"
    /\ ucalls[2][1] = "bit" /\ ucalls[2][5] = <<"or", 1>>
    /\ ucalls[3][1] = "bit" /\ ucalls[3][5] = <<"nand", 1>> /\ ucalls[3][3] = ucalls[2][3]
    /\ DOMAIN _update_map = {"$set", "$bit"}
    /\ PayloadOf(_update_map["$bit"]) = MapOf("flags", Object(MapOf("or", Int32(1))))

----------------------------------------------------------------------------
(* Query: the fluent builder of filter documents                           *)

\* A plausible slip: the existing entry is kept (emplace in place of
\* operator[]).
add_condition_KeepExisting(map, field, fv) ==
    IF field \in DOMAIN map THEN map ELSE MapPut(map, field, fv)

\* Query::add_condition: the map after the call.
add_condition(map, field, fv) == MapPut(map, field, fv)

\* The earlier revision of the method: the field's entry is replaced by a
\* fresh single-operator map on every call.
add_operator_condition_Overwrite(map, field, op, fv) ==
    MapPut(map, field, FieldValueOf(T_map, MapOf(op, fv)))

\* Query::add_operator_condition: the map after the call.  The entries
\* the builder stores are well-formed, so std::get finds the field map.
add_operator_condition(map, field, op, fv) ==
    IF field \in DOMAIN map /\ TypeOf(map[field]) = "FT_OBJECT"
    THEN MapPut(map, field, FV(TypeOf(map[field]), IndexOf(map[field]),
                               MapPut(PayloadOf(map[field]), op, fv)))
    ELSE MapPut(map, field, FieldValueOf(T_map, MapOf(op, fv)))

\* One more call is allowed on the builder.
QueryOpen == Len(qcalls) < MaxQueryCalls

\* Query::eq for a host integer and for a host field map.
eq == \E field \in {"age", "name"} :
      \E T \in {T_int32, T_map} :
      \E value \in IF T = T_int32 THEN {25} ELSE {MapOf("first", FieldValueOf(T_string, "A"))} :
    /\ QueryOpen
    /\ _query_map' = add_condition(_query_map, field, FieldValueOf(T, value))
    /\ qcalls' = Append(qcalls, <<"eq", "none", field, FieldValueOf(T, value)>>)
    /\ UNCHANGED <<valueVars, updateVars, pipelineVars, collectionVars, databaseVars, gridfsVars>>

\* Query::ne
ne == \E field \in {"age"} : \E value \in {10} :
    /\ QueryOpen
    /\ _query_map' = add_operator_condition(_query_map, field, "$ne", FieldValueOf(T_int32, value))
    /\ qcalls' = Append(qcalls, <<"ne", "$ne", field, FieldValueOf(T_int32, value)>>)
    /\ UNCHANGED <<valueVars, updateVars, pipelineVars, collectionVars, databaseVars, gridfsVars>>

\* Query::gt
gt == \E field \in {"age"} : \E value \in {10} :
    /\ QueryOpen
    /\ _query_map' = add_operator_condition(_query_map, field, "$gt", FieldValueOf(T_int32, value))
    /\ qcalls' = Append(qcalls, <<"gt", "$gt", field, FieldValueOf(T_int32, value)>>)
    /\ UNCHANGED <<valueVars, updateVars, pipelineVars, collectionVars, databaseVars, gridfsVars>>

\* Query::gte
gte == \E field \in {"age", "name"} : \E value \in {10, 20} :
    /\ QueryOpen
    /\ _query_map' = add_operator_condition(_query_map, field, "$gte", FieldValueOf(T_int32, value))
    /\ qcalls' = Append(qcalls, <<"gte", "$gte", field, FieldValueOf(T_int32, value)>>)
    /\ UNCHANGED <<valueVars, updateVars, pipelineVars, collectionVars, databaseVars, gridfsVars>>

\* Query::lt
lt == \E field \in {"age"} : \E value \in {20} :
    /\ QueryOpen
    /\ _query_map' = add_operator_condition(_query_map, field, "$lt", FieldValueOf(T_int32, value))
    /\ qcalls' = Append(qcalls, <<"lt", "$lt", field, FieldValueOf(T_int32, value)>>)
    /\ UNCHANGED <<valueVars, updateVars, pipelineVars, collectionVars, databaseVars, gridfsVars>>

\* Query::lte
lte == \E field \in {"age"} : \E value \in {20} :
    /\ QueryOpen
    /\ _query_map' = add_operator_condition(_query_map, field, "$lte", FieldValueOf(T_int32, value))
    /\ qcalls' = Append(qcalls, <<"lte", "$lte", field, FieldValueOf(T_int32, value)>>)
    /\ UNCHANGED <<valueVars, updateVars, pipelineVars, collectionVars, databaseVars, gridfsVars>>

\* The loop of in and all: fv_vector.emplace_back(val) for each value.
RECURSIVE EmplaceEach(_, _)
EmplaceEach(T, values) ==
    IF values = <<>> THEN <<>>
    ELSE <<FieldValueOf(T, Head(values))>> \o EmplaceEach(T, Tail(values))

\* Query::in
in == \E field \in {"age"} : \E values \in {<<10, 20>>} :
    /\ QueryOpen
    /\ _query_map' = add_operator_condition(_query_map, field, "$in",
            FieldValueOf(T_vector(T_FieldValue), EmplaceEach(T_int32, values)))
    /\ qcalls' = Append(qcalls, <<"in", "$in", field,
            FieldValueOf(T_vector(T_FieldValue), EmplaceEach(T_int32, values))>>)
    /\ UNCHANGED <<valueVars, updateVars, pipelineVars, collectionVars, databaseVars, gridfsVars>>

\* Query::all
all == \E field \in {"tags"} : \E values \in {<<"p">>} :
    /\ QueryOpen
    /\ _query_map' = add_operator_condition(_query_map, field, "$all",
            FieldValueOf(T_vector(T_FieldValue), EmplaceEach(T_string, values)))
    /\ qcalls' = Append(qcalls, <<"all", "$all", field,
            FieldValueOf(T_vector(T_FieldValue), EmplaceEach(T_string, values))>>)
    /\ UNCHANGED <<valueVars, updateVars, pipelineVars, collectionVars, databaseVars, gridfsVars>>

\* Query::exists
exists == \E field \in {"age"} : \E value \in BOOLEAN :
    /\ QueryOpen
    /\ _query_map' = add_operator_condition(_query_map, field, "$exists", FieldValueOf(T_bool, value))
    /\ qcalls' = Append(qcalls, <<"exists", "$exists", field, FieldValueOf(T_bool, value)>>)
    /\ UNCHANGED <<valueVars, updateVars, pipelineVars, collectionVars, databaseVars, gridfsVars>>

\* Query::mod
mod == \E field \in {"age"} : \E divisor \in {2} : \E remainder \in {1} :
    /\ QueryOpen
    /\ _query_map' = add_operator_condition(_query_map, field, "$mod",
            FieldValueOf(T_vector(T_FieldValue),
                         <<FieldValueOf(T_int64, divisor), FieldValueOf(T_int64, remainder)>>))
    /\ qcalls' = Append(qcalls, <<"mod", "$mod", field,
            FieldValueOf(T_vector(T_FieldValue),
                         <<FieldValueOf(T_int64, divisor), FieldValueOf(T_int64, remainder)>>)>>)
    /\ UNCHANGED <<valueVars, updateVars, pipelineVars, collectionVars, databaseVars, gridfsVars>>

\* Query::elemMatch, given the fields of Query{}.eq("p", 1).
elemMatch == \E field \in {"tags"} : \E query \in {MapOf("p", FieldValueOf(T_int32, 1))} :
    /\ QueryOpen
    /\ _query_map' = add_operator_condition(_query_map, field, "$elemMatch", FieldValueOf(T_map, query))
    /\ qcalls' = Append(qcalls, <<"elemMatch", "$elemMatch", field, FieldValueOf(T_map, query)>>)
    /\ UNCHANGED <<valueVars, updateVars, pipelineVars, collectionVars, databaseVars, gridfsVars>>

\* The regex_map that Query::regex builds.
RegexMap(pattern, options) ==
    IF options # ""
    THEN MapPut(MapOf("$regex", FieldValueOf(T_string, pattern)), "$options",
                FieldValueOf(T_string, options))
    ELSE MapOf("$regex", FieldValueOf(T_string, pattern))

\* Query::regex: the field's entry is assigned, not handed to
\* add_operator_condition.
regex == \E field \in {"age", "name"} : \E pattern \in {"^A"} : \E options \in {"", "i"} :
    /\ QueryOpen
    /\ _query_map' = MapPut(_query_map, field, FieldValueOf(T_map, RegexMap(pattern, options)))
    /\ qcalls' = Append(qcalls, <<"regex", "$regex", field,
                                  FieldValueOf(T_map, RegexMap(pattern, options))>>)
    /\ UNCHANGED <<valueVars, updateVars, pipelineVars, collectionVars, databaseVars, gridfsVars>>

\* Query::text
text == \E search_term \in {"coffee"} :
    /\ QueryOpen
    /\ _query_map' = MapPut(_query_map, "$text",
            FieldValueOf(T_map, MapOf("$search", FieldValueOf(T_string, search_term))))
    /\ qcalls' = Append(qcalls, <<"text", "none", "$text",
            FieldValueOf(T_map, MapOf("$search", FieldValueOf(T_string, search_term)))>>)
    /\ UNCHANGED <<valueVars, updateVars, pipelineVars, collectionVars, databaseVars, gridfsVars>>

\* The queries handed to Or and And, each built by the builder's methods:
\* Query{}.eq("name", "A"), Query{}.eq("name", "B") and
\* Query{}.gte("age", 10).lte("age", 20).
SampleQueries ==
    {add_condition(EmptyMap, "name", FieldValueOf(T_string, "A")),
     add_condition(EmptyMap, "name", FieldValueOf(T_string, "B")),
     add_operator_condition(
         add_operator_condition(EmptyMap, "age", "$gte", FieldValueOf(T_int32, 10)),
         "age", "$lte", FieldValueOf(T_int32, 20))}

\* A plausible slip: each document is put in front of the ones before it.
RECURSIVE QueryDocs_Prepend(_)
QueryDocs_Prepend(queries) ==
    IF queries = <<>> THEN <<>>
    ELSE QueryDocs_Prepend(Tail(queries)) \o <<FieldValueOf(T_map, Head(queries))>>

\* The loop of Or and And: query_docs.emplace_back(query.get_fields()).
RECURSIVE QueryDocs(_)
QueryDocs(queries) ==
    IF queries = <<>> THEN <<>>
    ELSE <<FieldValueOf(T_map, Head(queries))>> \o QueryDocs(Tail(queries))

\* Query::Or: a new Query, from a list of queries.
Or ==
    /\ qcalls = <<>> /\ _query_map = EmptyMap
    /\ \E queries \in SeqsUpTo(SampleQueries, MaxLen) :
       /\ _query_map' = MapPut(EmptyMap, "$or",
                               FieldValueOf(T_vector(T_FieldValue), QueryDocs(queries)))
       /\ qcalls' = <<<<"Or", "none", "$or",
                        FieldValueOf(T_vector(T_FieldValue), QueryDocs(queries)), queries>>>>
       /\ UNCHANGED <<valueVars, updateVars, pipelineVars, collectionVars, databaseVars, gridfsVars>>

\* Query::And: a new Query, from a list of queries.
And ==
    /\ qcalls = <<>> /\ _query_map = EmptyMap
    /\ \E queries \in SeqsUpTo(SampleQueries, MaxLen) :
       /\ _query_map' = MapPut(EmptyMap, "$and",
                               FieldValueOf(T_vector(T_FieldValue), QueryDocs(queries)))
       /\ qcalls' = <<<<"And", "none", "$and",
                        FieldValueOf(T_vector(T_FieldValue), QueryDocs(queries)), queries>>>>
       /\ UNCHANGED <<valueVars, updateVars, pipelineVars, collectionVars, databaseVars, gridfsVars>>

QueryNext ==
    \/ Or
    \/ And
    \/ eq
    \/ ne
    \/ gt
    \/ gte
    \/ lt
    \/ lte
    \/ in
    \/ all
    \/ exists
    \/ mod
    \/ elemMatch
    \/ regex
    \/ text

\* Query query; followed by at most MaxQueryCalls chained calls.
SpecQuery == Init /\ [][QueryNext]_vars

\* The methods that go through add_operator_condition.
OperatorMethods == {"ne", "gt", "gte", "lt", "lte", "in", "all", "exists", "mod", "elemMatch"}

C11_OrAnd ==
    (Len(qcalls) = 1 /\ qcalls[1][1] \in {"Or", "And"}) =>
        LET key == IF qcalls[1][1] = "Or" THEN "$or" ELSE "$and"
            queries == qcalls[1][5]
        IN /\ DOMAIN _query_map = {key}
           /\ TypeOf(_query_map[key]) = "FT_ARRAY"
           /\ IndexOf(_query_map[key]) = "vector_FieldValue"
           /\ Len(PayloadOf(_query_map[key])) = Len(queries)
           /\ \A i \in 1..Len(queries) :
                 PayloadOf(_query_map[key])[i] = Object(queries[i])

C11_Witness ==
    /\ Len(qcalls) = 1
    /\ qcalls[1][1] = "Or"
    /\ _query_map = MapOf("$or", Array(<<Object(MapOf("name", String("A"))),
                                          Object(MapOf("name", String("B")))>>))

\* The operator names the builder's methods store under a field.
OperatorNames ==
    {"$ne", "$gt", "$gte", "$lt", "$lte", "$in", "$all", "$exists", "$mod", "$elemMatch",
     "$regex", "$options"}

\* The field's entry is an Object of operators.
HoldsOperators(field) ==
    /\ field \in DOMAIN _query_map
    /\ TypeOf(_query_map[field]) = "FT_OBJECT"
    /\ DOMAIN PayloadOf(_query_map[field]) \subseteq OperatorNames

\* C9: a regex call on a field that already holds an Object of operators
\* keeps the operators already there and adds its own condition; on a field
\* with no entry or a non-Object entry it stores a fresh Object.
C9_RegexMerges ==
    [][(/\ qcalls' # qcalls
        /\ qcalls'[Len(qcalls')][1] = "regex")
       => LET call == qcalls'[Len(qcalls')]
              added == PayloadOf(call[4])
          IN IF HoldsOperators(call[3])
             THEN /\ TypeOf(_query_map'[call[3]]) = "FT_OBJECT"
                  /\ \A k \in DOMAIN added : PayloadOf(_query_map'[call[3]])[k] = added[k]
                  /\ \A k \in DOMAIN PayloadOf(_query_map[call[3]]) \ DOMAIN added :
                        /\ k \in DOMAIN PayloadOf(_query_map'[call[3]])
                        /\ PayloadOf(_query_map'[call[3]])[k] = PayloadOf(_query_map[call[3]])[k]
             ELSE _query_map'[call[3]] = call[4]]_vars

\* The last call is an operator call on the field of the eq call just
\* before it.
EqThenOperator ==
    /\ Len(qcalls) >= 2
    /\ qcalls[Len(qcalls)][1] \in OperatorMethods
    /\ qcalls[Len(qcalls) - 1][1] = "eq"
    /\ qcalls[Len(qcalls) - 1][3] = qcalls[Len(qcalls)][3]

\* The last call is eq.
EqLast == Len(qcalls) >= 1 /\ qcalls[Len(qcalls)][1] = "eq"

\* C10 as stated: whatever the kind of the value eq stored, the operator
\* call that follows leaves exactly {op: x}; and eq leaves exactly v.
C10_MutuallyExclusive ==
    /\ EqThenOperator =>
          _query_map[qcalls[Len(qcalls)][3]]
              = Object(MapOf(qcalls[Len(qcalls)][2], qcalls[Len(qcalls)][4]))
    /\ EqLast => _query_map[qcalls[Len(qcalls)][3]] = qcalls[Len(qcalls)][4]

\* C10: after eq(f, v) with v of a kind other than Object, an operator call
\* op(f, x) leaves exactly the single-entry Object {op: x}; with v an Object
\* the call adds op: x to the entries of v; and after eq(f, v) the entry for
\* f is exactly v, whatever was stored before.
C10_NonObjectExclusive ==
    /\ EqThenOperator =>
          LET call == qcalls[Len(qcalls)]
              v == qcalls[Len(qcalls) - 1][4]
          IN IF TypeOf(v) # "FT_OBJECT"
             THEN _query_map[call[3]] = Object(MapOf(call[2], call[4]))
             ELSE _query_map[call[3]] = Object(MapPut(PayloadOf(v), call[2], call[4]))
    /\ EqLast => _query_map[qcalls[Len(qcalls)][3]] = qcalls[Len(qcalls)][4]

C10_Witness ==
    /\ Len(qcalls) = 3
    /\ qcalls[1][1] = "gte" /\ qcalls[1][3] = "age"
    /\ qcalls[2] = <<"eq", "none", "age", Int32(25)>>
    /\ qcalls[3][1] = "lte"
    /\ _query_map = MapOf("age", Object(MapOf("$lte", Int32(20))))

----------------------------------------------------------------------------
(* Properties of the value specification                                   *)

RECURSIVE WellFormed(_)
\* The tag is one of the twelve kinds that have a payload alternative, the
\* variant holds that alternative, and so for every nested value.
WellFormed(v) ==
    /\ IndexOf(v) = VariantFor(TypeOf(v))
    /\ CASE IndexOf(v) = "vector_FieldValue" ->
              \A i \in 1..Len(PayloadOf(v)) : WellFormed(PayloadOf(v)[i])
         [] IndexOf(v) = "map" ->
              \A k \in DOMAIN PayloadOf(v) : WellFormed(PayloadOf(v)[k])
         [] OTHER -> TRUE

RECURSIVE NaNFree(_)
\* No double anywhere in v is a NaN.
NaNFree(v) ==
    CASE IndexOf(v) = "vector_FieldValue" ->
            \A i \in 1..Len(PayloadOf(v)) : NaNFree(PayloadOf(v)[i])
      [] IndexOf(v) = "map" ->
            \A k \in DOMAIN PayloadOf(v) : NaNFree(PayloadOf(v)[k])
      [] IndexOf(v) = "double" -> PayloadOf(v) # NaN
      [] OTHER -> TRUE

\* C3 as stated: every FieldValue of recognized kinds, encoded under a key
\* or into an array and decoded again, is equal (operator==) to the original.
C3_RoundTripEqual ==
    (how = "decode" /\ WellFormed(orig)) => FieldValueEq(fieldValue, orig)

\* C3 amended: encoding a FieldValue of recognized kinds never throws, the
\* decoded value has the same kind and payload at every level, and it
\* compares equal to the original exactly when the original holds no NaN.
C3_RoundTrip ==
    /\ (orig # NoOrig /\ WellFormed(orig)) => IsOk(elem[2])
    /\ (how = "decode" /\ WellFormed(orig)) =>
          /\ fieldValue = orig
          /\ FieldValueEq(fieldValue, orig) <=> NaNFree(orig)

C3_Witness ==
    /\ how = "decode"
    /\ orig \in Level3
    /\ NaNFree(orig)
    /\ elem[1] = "array"
    /\ FieldValueEq(fieldValue, orig)

\* The kinds AppendToDocument and AppendToArray have no case for.
UnsupportedKinds ==
    {"FT_CODE", "FT_DECIMAL_128", "FT_MAXKEY", "FT_MINKEY", "FT_BSON_REG_EXPR",
     "FT_BSON_SYMBOL", "FT_UNDEFINED"}

RECURSIVE Encodable(_)
\* Every value in v is of an unsupported kind, whatever it holds, or holds
\* the alternative of its kind.
Encodable(v) ==
    \/ TypeOf(v) \in UnsupportedKinds
    \/ /\ IndexOf(v) = VariantFor(TypeOf(v))
       /\ CASE IndexOf(v) = "vector_FieldValue" ->
                 \A i \in 1..Len(PayloadOf(v)) : Encodable(PayloadOf(v)[i])
            [] IndexOf(v) = "map" ->
                 \A k \in DOMAIN PayloadOf(v) : Encodable(PayloadOf(v)[k])
            [] OTHER -> TRUE

RECURSIVE HasUnsupported(_)
\* Some value in v, at any depth, is of an unsupported kind.
HasUnsupported(v) ==
    \/ TypeOf(v) \in UnsupportedKinds
    \/ /\ TypeOf(v) = "FT_ARRAY" /\ IndexOf(v) = "vector_FieldValue"
       /\ \E i \in 1..Len(PayloadOf(v)) : HasUnsupported(PayloadOf(v)[i])
    \/ /\ TypeOf(v) = "FT_OBJECT" /\ IndexOf(v) = "map"
       /\ \E k \in DOMAIN PayloadOf(v) : HasUnsupported(PayloadOf(v)[k])

RECURSIVE EncodedAs(_, _)
\* The element e holds a null marker where v holds an unsupported kind, a
\* document with the keys of v where v is an Object, an array of the length
\* of v where v is an Array, and elsewhere the element that decodes to v.
EncodedAs(v, e) ==
    IF TypeOf(v) \in UnsupportedKinds THEN e = <<"k_null", "b_null">>
    ELSE IF TypeOf(v) = "FT_OBJECT"
    THEN /\ e[1] = "k_document"
         /\ Len(e[2]) = Cardinality(DOMAIN PayloadOf(v))
         /\ {e[2][i][1] : i \in 1..Len(e[2])} = DOMAIN PayloadOf(v)
         /\ \A i \in 1..Len(e[2]) : EncodedAs(PayloadOf(v)[e[2][i][1]], e[2][i][2])
    ELSE IF TypeOf(v) = "FT_ARRAY"
    THEN /\ e[1] = "k_array"
         /\ Len(e[2]) = Len(PayloadOf(v))
         /\ \A i \in 1..Len(e[2]) : EncodedAs(PayloadOf(v)[i], e[2][i])
    ELSE fromBsonElement(e) = v

\* C12: encoding a value that holds unsupported kinds, at any depth, throws
\* nothing, puts a null marker in each such position and encodes every other
\* entry as usual, so keys and array lengths are those of the input.
C12_UnsupportedAsNull ==
    (orig # NoOrig /\ Encodable(orig) /\ HasUnsupported(orig)) =>
        /\ IsOk(elem[2])
        /\ Len(ValueOf(elem[2])) = 1
        /\ elem[1] = "document" => ValueOf(elem[2])[1][1] = "a"
        /\ EncodedAs(orig, BuiltElement)

C12_Witness ==
    /\ orig = Object(MapPut(MapOf("a", Array(<<FV("FT_BSON_REG_EXPR", "string", "x"),
                                               String("x")>>)),
                            "b", FV("FT_MAXKEY", "nullptr_t", "nullptr")))
    /\ elem[1] = "document"
    /\ IsOk(elem[2])
    /\ BuiltElement[1] = "k_document"
    /\ how = "two_arg"

RECURSIVE DecodedAs(_, _)
\* The value v is Null where the element e is of an unrecognized type, an
\* Object with the keys of e where e is a document, an Array of the length
\* of e where e is an array, and elsewhere the well-formed value of e.
DecodedAs(e, v) ==
    IF e[1] \notin RecognizedWireTypes THEN v = FV("FT_NULL", "nullptr_t", "nullptr")
    ELSE IF e[1] = "k_document"
    THEN /\ TypeOf(v) = "FT_OBJECT" /\ IndexOf(v) = "map"
         /\ DOMAIN PayloadOf(v) = {e[2][i][1] : i \in 1..Len(e[2])}
         /\ \A i \in 1..Len(e[2]) : DecodedAs(e[2][i][2], PayloadOf(v)[e[2][i][1]])
    ELSE IF e[1] = "k_array"
    THEN /\ TypeOf(v) = "FT_ARRAY" /\ IndexOf(v) = "vector_FieldValue"
         /\ Len(PayloadOf(v)) = Len(e[2])
         /\ \A i \in 1..Len(e[2]) : DecodedAs(e[2][i], PayloadOf(v)[i])
    ELSE /\ TypeOf(v) # "FT_NULL"
         /\ IndexOf(v) = VariantFor(TypeOf(v))
         /\ PayloadOf(v) = IF e[1] = "k_binary" THEN e[2][2] ELSE e[2]

\* C13: fromBsonElement turns every element of an unrecognized wire type,
\* at any depth, into Null with a null payload, and decodes its siblings as
\* usual.
C13_UnknownAsNull ==
    how = "decode_foreign" => DecodedAs(host[2], fieldValue)

C13_Witness ==
    /\ how = "decode_foreign"
    /\ host[2] = <<"k_array", << <<"k_int32", 7>>, <<"k_maxkey", "max">>, <<"k_string", "x">> >> >>
    /\ fieldValue = Array(<<Int32(7), Null, String("x")>>)

\* C14: from_fields(d.to_fields()) on a fresh User gives a User whose name,
\* age, email and tags equal those of d.
C14_DocumentRoundTrip ==
    (how = "to_fields" /\ res # NoRes /\ res[1] = T_User) => res[2] = Ok(host[2])

C14_Witness ==
    /\ how = "to_fields"
    /\ host[2] = UserOf("A", 99, "a@a", <<"a", "b">>)
    /\ res # NoRes
    /\ res[1] = T_User
    /\ res[2] = Ok(UserOf("A", 99, "a@a", <<"a", "b">>))

\* The ordinal of the enum value e of type T is representable as int32_t.
OrdinalFits(T, e) ==
    IF EnumWidth(T) = 8
    THEN \A i \in 5..8 : e[i] = IF EnumSigned(T) /\ e[4] >= 128 THEN 255 ELSE 0
    ELSE IF EnumWidth(T) = 4 THEN EnumSigned(T) \/ e[4] < 128
    ELSE TRUE

\* The int32_t n is the ordinal of the enum value e of type T.
HoldsOrdinal(T, e, n) ==
    /\ e = BytesOfInt32(n, EnumWidth(T))
    /\ ~EnumSigned(T) => n >= 0
    /\ EnumWidth(T) = 1 => n <= 255

C16_DateLossless ==
    (how = "host" /\ host[1] = T_time_point) =>
        /\ TypeOf(fieldValue) = "FT_DATE"
        /\ (res # NoRes /\ res[1] = T_time_point) => res[2] = Ok(host[2])

\* C16 amended: FieldValue(tp) is a Date holding whole milliseconds, and
\* as<time_point>() gives tp cut toward the epoch to a whole millisecond,
\* which is tp exactly when tp is a whole number of milliseconds.
C16_DateMillis ==
    (how = "host" /\ host[1] = T_time_point) =>
        /\ TypeOf(fieldValue) = "FT_DATE" /\ IndexOf(fieldValue) = "b_date"
        /\ (res # NoRes /\ res[1] = T_time_point) =>
              LET tp == host[2]
                  back == ValueOf(res[2])
              IN /\ IsOk(res[2])
                 /\ back % TicksPerMilli = 0
                 /\ IF tp >= 0 THEN back <= tp /\ tp - back < TicksPerMilli
                    ELSE back >= tp /\ back - tp < TicksPerMilli
                 /\ back = tp <=> tp % TicksPerMilli = 0

C16_Witness ==
    /\ how = "host"
    /\ host = <<T_time_point, 2 * TicksPerMilli + 1>>
    /\ res = <<T_time_point, Ok(2 * TicksPerMilli)>>

\* The host types C4 names: bool, int32, int64, string, ObjectId, byte
\* sequence, sequences of these and sequences of sequences.
RoundTripTypes ==
    {T_bool, T_int32, T_int64, T_string, T_oid, T_bytes,
     T_vector(T_bool), T_vector(T_int32), T_vector(T_int64), T_vector(T_string),
     T_vector(T_oid), T_vector(T_bytes), T_vector(T_vector(T_int32))}

\* C4: FieldValue(x).as<T>() == x for a host value x of a supported type T;
\* a sequence becomes an Array of the same length, a byte sequence becomes
\* a Binary.
C4_HostRoundTrip ==
    (how = "host" /\ host[1] \in RoundTripTypes) =>
        /\ (res # NoRes /\ res[1] = host[1]) => res[2] = Ok(host[2])
        /\ IsVector(host[1]) =>
              /\ TypeOf(fieldValue) = "FT_ARRAY"
              /\ IndexOf(fieldValue) = "vector_FieldValue"
              /\ Len(PayloadOf(fieldValue)) = Len(host[2])
        /\ host[1] = T_bytes =>
              /\ TypeOf(fieldValue) = "FT_BINARY"
              /\ IndexOf(fieldValue) = "vector_uint8"

C4_Witness ==
    /\ how = "host"
    /\ host[1] = T_vector(T_vector(T_int32))
    /\ host[2] = <<<<0, 7>>, <<>>>>
    /\ res # NoRes
    /\ res[1] = host[1]
    /\ res[2] = Ok(host[2])

\* An element e that as<U>() answers with U{}.
Mismatched(U, e) ==
    \/ U \in PlainScalars /\ IndexOf(e) # U[1]
    \/ U = T_bytes /\ TypeOf(e) # "FT_BINARY"
    \/ IsEnum(U) /\ TypeOf(e) # "FT_INT_32"
    \/ U = T_time_point /\ TypeOf(e) # "FT_DATE"
    \/ U = T_User /\ TypeOf(e) # "FT_OBJECT"
    \/ IsVector(U) /\ TypeOf(e) # "FT_ARRAY"

\* C5: on a well-formed FieldValue, as<T>() for a plain scalar T other than
\* the stored alternative returns T{} (no widening); as<vector<U>>() returns
\* the empty sequence on a non-Array and, on an Array, a sequence of the
\* same length whose mismatched elements are U{}; nothing is thrown.
C5_MismatchDefaults ==
    (res # NoRes /\ WellFormed(fieldValue)) =>
        /\ IsOk(res[2])
        /\ (res[1] \in PlainScalars /\ res[1][1] # IndexOf(fieldValue)) =>
              res[2] = Ok(Zero(res[1]))
        /\ (IsVector(res[1]) /\ TypeOf(fieldValue) # "FT_ARRAY") => res[2] = Ok(<<>>)
        /\ (IsVector(res[1]) /\ TypeOf(fieldValue) = "FT_ARRAY") =>
              /\ Len(ValueOf(res[2])) = Len(PayloadOf(fieldValue))
              /\ \A i \in 1..Len(PayloadOf(fieldValue)) :
                    Mismatched(res[1][2], PayloadOf(fieldValue)[i]) =>
                        ValueOf(res[2])[i] = Zero(res[1][2])

C5_Witness ==
    /\ fieldValue = Array(<<Int32(7), String("x")>>)
    /\ res # NoRes
    /\ res[1] = T_vector(T_int32)
    /\ res[2] = Ok(<<7, 0>>)

\* C6 as stated: as<T>() never raises, whatever the tag and the payload.
C6_AsNeverRaises == res # NoRes => IsOk(res[2])

\* C7 as stated: every FieldValue that default construction, conversion
\* from a host value or fromBsonElement produced is well formed.
C7_AlwaysConsistent ==
    how \in {"default", "host", "decode", "decode_foreign"} => WellFormed(fieldValue)

\* C7 amended: conversion from a host value and fromBsonElement produce
\* well-formed values; a default-constructed FieldValue is tagged
\* FT_UNDEFINED, a kind without a payload alternative, and holds the
\* variant's first alternative, an empty sequence of FieldValue.
C7_ConstructedConsistent ==
    /\ how \in {"host", "decode", "decode_foreign"} => WellFormed(fieldValue)
    /\ how = "default" =>
          /\ TypeOf(fieldValue) = "FT_UNDEFINED"
          /\ IndexOf(fieldValue) = "vector_FieldValue"
          /\ PayloadOf(fieldValue) = <<>>

C7_Witness ==
    /\ how = "host"
    /\ host[1] = T_vector(T_User)
    /\ Len(host[2]) = 2
    /\ TypeOf(PayloadOf(fieldValue)[2]) = "FT_OBJECT"
    /\ WellFormed(fieldValue)

----------------------------------------------------------------------------
(* Aggregation: a mongocxx::pipeline filled one stage per call.             *)

\* DocumentBuilder(key, value): _doc_map[key] = value
DocumentBuilder(key, value) == MapPut(EmptyMap, key, value)

\* DocumentBuilder::add_field: _doc_map[key] = value (a nested builder is
\* handed over as FieldValue(builder._doc_map)).
add_field(_doc_map, key, value) == MapPut(_doc_map, key, value)

\* DocumentBuilder::build: AppendToDocument for each entry of _doc_map, in
\* the order the unordered_map yields them.
build(_doc_map, ord) == AppendFields(Ok(<<>>), _doc_map, KeySeq(_doc_map, ord), ord)

\* A plausible slip: the new stage is put in front of the earlier ones.
AppendStage_Front(pipeline, name, element) == <<<<<<name, element>>>>>> \o pipeline

\* _pipeline.match(doc), .group(doc), ...: the pipeline appends the
\* single-key document { name: element } after the stages it holds.
AppendStage(pipeline, name, element) == Append(pipeline, <<<<name, element>>>>)

\* Aggregation::match
match ==
    /\ Len(acalls) < MaxStageCalls
    /\ \E query \in SampleQueries : \E ord \in IterationOrders :
       LET match_doc == AppendFields(Ok(<<>>), query, KeySeq(query, ord), ord)
       IN /\ IsOk(match_doc)
          /\ _pipeline' = AppendStage(_pipeline, "$match", <<"k_document", ValueOf(match_doc)>>)
          /\ acalls' = Append(acalls, <<"match", query>>)
          /\ UNCHANGED <<valueVars, updateVars, queryVars, collectionVars, databaseVars, gridfsVars>>

\* Aggregation::group, with the builder of test_aggregation_pipeline:
\* DocumentBuilder("_id", "$age").add_field("count", DocumentBuilder("$sum", 1))
group ==
    /\ Len(acalls) < MaxStageCalls
    /\ \E ord \in IterationOrders :
       LET inner == DocumentBuilder("$sum", FieldValueOf(T_int32, 1))
           group_doc == add_field(DocumentBuilder("_id", FieldValueOf(T_string, "$age")),
                                  "count", FieldValueOf(T_map, inner))
       IN /\ IsOk(build(group_doc, ord))
          /\ _pipeline' = AppendStage(_pipeline, "$group",
                                      <<"k_document", ValueOf(build(group_doc, ord))>>)
          /\ acalls' = Append(acalls, <<"group", group_doc>>)
          /\ UNCHANGED <<valueVars, updateVars, queryVars, collectionVars, databaseVars, gridfsVars>>

\* Aggregation::project
project ==
    /\ Len(acalls) < MaxStageCalls
    /\ \E ord \in IterationOrders :
       LET project_doc == DocumentBuilder("name", FieldValueOf(T_int32, 1))
       IN /\ IsOk(build(project_doc, ord))
          /\ _pipeline' = AppendStage(_pipeline, "$project",
                                      <<"k_document", ValueOf(build(project_doc, ord))>>)
          /\ acalls' = Append(acalls, <<"project", project_doc>>)
          /\ UNCHANGED <<valueVars, updateVars, queryVars, collectionVars, databaseVars, gridfsVars>>

\* Aggregation::sort, with the builder of test_aggregation_pipeline:
\* DocumentBuilder("_id", 1)
sort ==
    /\ Len(acalls) < MaxStageCalls
    /\ \E ord \in IterationOrders :
       LET sort_doc == DocumentBuilder("_id", FieldValueOf(T_int32, 1))
       IN /\ IsOk(build(sort_doc, ord))
          /\ _pipeline' = AppendStage(_pipeline, "$sort",
                                      <<"k_document", ValueOf(build(sort_doc, ord))>>)
          /\ acalls' = Append(acalls, <<"sort", sort_doc>>)
          /\ UNCHANGED <<valueVars, updateVars, queryVars, collectionVars, databaseVars, gridfsVars>>

\* Aggregation::lookup
lookup ==
    /\ Len(acalls) < MaxStageCalls
    /\ \E from \in {"orders"} : \E local_field \in {"_id"} :
       \E foreign_field \in {"user"} : \E as \in {"orders"} : \E ord \in IterationOrders :
       LET lookup_doc ==
               add_field(add_field(add_field(add_field(EmptyMap,
                   "from", FieldValueOf(T_string, from)),
                   "localField", FieldValueOf(T_string, local_field)),
                   "foreignField", FieldValueOf(T_string, foreign_field)),
                   "as", FieldValueOf(T_string, as))
       IN /\ IsOk(build(lookup_doc, ord))
          /\ _pipeline' = AppendStage(_pipeline, "$lookup",
                                      <<"k_document", ValueOf(build(lookup_doc, ord))>>)
          /\ acalls' = Append(acalls, <<"lookup", <<from, local_field, foreign_field, as>>>>)
          /\ UNCHANGED <<valueVars, updateVars, queryVars, collectionVars, databaseVars, gridfsVars>>

\* Aggregation::unwind: unwind_doc.append(kvp("path", field))
unwind ==
    /\ Len(acalls) < MaxStageCalls
    /\ \E field \in {"$tags"} :
       LET unwind_doc == <<<<"path", <<"k_string", field>>>>>>
       IN /\ _pipeline' = AppendStage(_pipeline, "$unwind", <<"k_document", unwind_doc>>)
          /\ acalls' = Append(acalls, <<"unwind", field>>)
          /\ UNCHANGED <<valueVars, updateVars, queryVars, collectionVars, databaseVars, gridfsVars>>

\* Aggregation::limit
limit ==
    /\ Len(acalls) < MaxStageCalls
    /\ \E n \in {1, 5} :
       /\ _pipeline' = AppendStage(_pipeline, "$limit", <<"k_int32", n>>)
       /\ acalls' = Append(acalls, <<"limit", n>>)
       /\ UNCHANGED <<valueVars, updateVars, queryVars, collectionVars, databaseVars, gridfsVars>>

\* Aggregation::skip
skip ==
    /\ Len(acalls) < MaxStageCalls
    /\ \E n \in {0} :
       /\ _pipeline' = AppendStage(_pipeline, "$skip", <<"k_int32", n>>)
       /\ acalls' = Append(acalls, <<"skip", n>>)
       /\ UNCHANGED <<valueVars, updateVars, queryVars, collectionVars, databaseVars, gridfsVars>>

\* Aggregation::count
count ==
    /\ Len(acalls) < MaxStageCalls
    /\ \E output_field \in {"total"} :
       /\ _pipeline' = AppendStage(_pipeline, "$count", <<"k_string", output_field>>)
       /\ acalls' = Append(acalls, <<"count", output_field>>)
       /\ UNCHANGED <<valueVars, updateVars, queryVars, collectionVars, databaseVars, gridfsVars>>

AggregationNext ==
    \/ match
    \/ group
    \/ project
    \/ sort
    \/ lookup
    \/ unwind
    \/ limit
    \/ skip
    \/ count

SpecAggregation == Init /\ [][AggregationNext]_vars

\* The key of the stage document a method appends.
StageName(method) == "$" \o method

\* What a stage wraps: the encoding of the Query's fields or of the built
\* document, the count, the output field, or { path: field } for unwind and
\* { from, localField, foreignField, as } for lookup.
Wraps(call, element) ==
    CASE call[1] \in {"match", "group", "project", "sort"} ->
           EncodedAs(Object(call[2]), element)
      [] call[1] = "lookup" ->
           EncodedAs(Object(MapPut(MapPut(MapPut(MapOf("from", String(call[2][1])),
                                                 "localField", String(call[2][2])),
                                          "foreignField", String(call[2][3])),
                                   "as", String(call[2][4]))), element)
      [] call[1] = "unwind" ->
           element = <<"k_document", <<<<"path", <<"k_string", call[2]>>>>>>>>
      [] call[1] \in {"limit", "skip"} ->
           element[1] \in {"k_int32", "k_int64"} /\ element[2] = call[2]
      [] call[1] = "count" -> element = <<"k_string", call[2]>>

\* C19: after n stage calls the pipeline holds n stages in call order, each
\* a single-key document named after its method and wrapping its argument,
\* and a call appends one stage and leaves the earlier stages as they were.
C19_StageOrder ==
    /\ [](/\ Len(_pipeline) = Len(acalls)
          /\ \A i \in 1..Len(acalls) :
               /\ Len(_pipeline[i]) = 1
               /\ _pipeline[i][1][1] = StageName(acalls[i][1])
               /\ Wraps(acalls[i], _pipeline[i][1][2]))
    /\ [][acalls' # acalls =>
            /\ Len(_pipeline') = Len(_pipeline) + 1
            /\ SubSeq(_pipeline', 1, Len(_pipeline)) = _pipeline]_vars

\* group(...).sort(...) of test_aggregation_pipeline followed by limit.
C19_Witness ==
    /\ Len(acalls) = 3
    /\ acalls[1][1] = "group" /\ acalls[2][1] = "sort" /\ acalls[3][1] = "limit"
    /\ _pipeline[2] = <<<<"$sort", <<"k_document", <<<<"_id", <<"k_int32", 1>>>>>>>>>>>>
    /\ _pipeline[3] = <<<<"$limit", <<"k_int32", 5>>>>>>

----------------------------------------------------------------------------
(* Collection<T>: the operations applied to one Document object.            *)

\* The documents of the calls that inserted: one for create_one, the size
\* of the vector for create_many.
RECURSIVE Inserted(_)
Inserted(calls) ==
    IF calls = <<>> THEN 0
    ELSE Inserted(Tail(calls))
         + (IF Head(calls)[2] \notin {"inserted", "unacknowledged"} THEN 0
            ELSE IF Head(calls)[1] = "create_many" THEN Head(calls)[3] ELSE 1)

\* The identifier the driver generates for the next inserted document: the
\* document built by to_bson_doc(doc.to_fields()) carries no _id of its
\* own, so every insert gets a new one.
NextOid == Inserted(ccalls) + 1

\* The values the fields of the Document are set to before it is created.
CollectionUsers == {UserOf("John Doe", 30, "john.doe@example.com", <<"a">>)}

\* The second Document of a vector of two.
SecondUser == UserOf("Peter Pan", 100, "peter@example.com", <<>>)

\* user.name = ...; user.age = ...; before the Document is handed to the collection
AssignFields ==
    /\ ccalls = <<>>
    /\ userDoc = DefaultUser
    /\ \E u \in CollectionUsers : userDoc' = u
    /\ UNCHANGED <<_id, stored, contents, ccalls, lastCall>>
    /\ UNCHANGED <<valueVars, updateVars, queryVars, pipelineVars, databaseVars, gridfsVars>>

\* Collection::to_bson_doc
to_bson_doc(map, ord) == AppendFields(Ok(<<>>), map, KeySeq(map, ord), ord)

\* The document the collection holds: the generated _id, then the elements
\* sent.  No call observes the order of the elements, so they are kept in
\* the order of their keys.
StoredDocument(oid_value, bson_doc) ==
    LET keys == SelectSeq(KeyOrder, LAMBDA k : \E i \in 1..Len(bson_doc) : bson_doc[i][1] = k)
        at(k) == CHOOSE i \in 1..Len(bson_doc) : bson_doc[i][1] = k
    IN <<<<"_id", <<"k_oid", oid_value>>>>>> \o [j \in 1..Len(keys) |-> bson_doc[at(keys[j])]]

RECURSIVE from_bson_doc(_, _)
\* Collection::from_bson_doc, the loop: <<doc._id, fields>> after it.
from_bson_doc(doc, view) ==
    IF view = <<>> THEN doc
    ELSE IF Head(view)[1] = "_id"
         THEN from_bson_doc(<<FieldValueOf(T_oid, Head(view)[2][2]), doc[2]>>, Tail(view))
         ELSE from_bson_doc(<<doc[1], MapPut(doc[2], Head(view)[1],
                                             fromBsonElement(Head(view)[2]))>>, Tail(view))

\* The Document from_bson_doc returns: <<_id, user>>.
Found(view) ==
    LET doc == from_bson_doc(<<DefaultFieldValue, EmptyMap>>, view)
    IN <<doc[1], ValueOf(UserFromFields(doc[2]))>>

\* The call returned number and left the Documents docs (those of the
\* vector, or the one found).
Returned(op, number, docs) ==
    [NoLast EXCEPT !.op = op, !.outcome = "returned", !.count = number, !.docs = docs]
\* The call threw what.
Raised(op, what) == [NoLast EXCEPT !.op = op, !.outcome = what]

\* Collection::create_one(doc)
create_one ==
    /\ Len(ccalls) < MaxCollectionCalls
    /\ \E outcome \in {"inserted", "unacknowledged", "throws"} : \E ord \in IterationOrders :
       LET bson_doc == ValueOf(to_bson_doc(UserToFields(userDoc), ord))
       IN /\ ccalls' = Append(ccalls, <<"create_one", outcome>>)
          /\ CASE outcome = "inserted" ->
                    \* if (result) { doc._id = result->inserted_id().get_oid().value; return 1; }
                    /\ _id' = FieldValueOf(T_oid, NextOid)
                    /\ stored' = stored \cup {NextOid}
                    /\ contents' = MapPut(contents, NextOid, StoredDocument(NextOid, bson_doc))
                    /\ lastCall' = Returned("create_one", 1, <<>>)
               [] outcome = "unacknowledged" ->
                    \* the result is empty: return 0
                    /\ _id' = _id
                    /\ stored' = stored \cup {NextOid}
                    /\ contents' = MapPut(contents, NextOid, StoredDocument(NextOid, bson_doc))
                    /\ lastCall' = Returned("create_one", 0, <<>>)
               [] outcome = "throws" ->
                    \* throw QDB::Exception("Failed to create document: ...")
                    /\ _id' = _id
                    /\ stored' = stored
                    /\ contents' = contents
                    /\ lastCall' = Raised("create_one", "QDB::Exception")
    /\ userDoc' = userDoc
    /\ UNCHANGED <<valueVars, updateVars, queryVars, pipelineVars, databaseVars, gridfsVars>>

\* The vector handed to create_many: empty, the Document, or the Document
\* and a second one; each entry is <<_id, user>>.
Docs(size) ==
    CASE size = 0 -> <<>>
      [] size = 1 -> <<<<_id, userDoc>>>>
      [] OTHER -> <<<<_id, userDoc>>, <<DefaultFieldValue, SecondUser>>>>

\* result->inserted_ids(): the identifier of the document at each position
\* of the vector, positions counted from 0.
InsertedIds(size) == [i \in 0..(size - 1) |-> NextOid + i]

\* A plausible slip: every document gets the identifier of the first position.
AssignIds_First(docs, inserted_ids) ==
    [i \in 1..Len(docs) |-> <<FieldValueOf(T_oid, inserted_ids[0]), docs[i][2]>>]

\* for (i = 0; i < docs.size(); ++i)
\*     if (it = inserted_ids.find(i); it != end) docs[i]._id = it->second.get_oid().value;
AssignIds(docs, inserted_ids) ==
    [i \in 1..Len(docs) |->
        IF (i - 1) \in DOMAIN inserted_ids
        THEN <<FieldValueOf(T_oid, inserted_ids[i - 1]), docs[i][2]>>
        ELSE docs[i]]

\* The collection after insert_many: every document stored under its identifier.
RECURSIVE InsertMany(_, _, _, _)
InsertMany(held, docs, inserted_ids, ord) ==
    IF docs = <<>> THEN held
    ELSE LET i == Len(docs) - 1
         IN MapPut(InsertMany(held, SubSeq(docs, 1, i), inserted_ids, ord), inserted_ids[i],
                   StoredDocument(inserted_ids[i],
                                  ValueOf(to_bson_doc(UserToFields(docs[i + 1][2]), ord))))

\* Collection::create_many(docs)
create_many ==
    /\ Len(ccalls) < MaxCollectionCalls
    /\ \E size \in {0, 1, 2} : \E outcome \in {"inserted", "unacknowledged", "throws"} :
       \E ord \in IterationOrders :
       IF size = 0
       THEN \* if (docs.empty()) return 0;
            /\ ccalls' = Append(ccalls, <<"create_many", "empty", 0>>)
            /\ lastCall' = Returned("create_many", 0, Docs(0))
            /\ UNCHANGED <<_id, userDoc, stored, contents>>
            /\ UNCHANGED <<valueVars, updateVars, queryVars, pipelineVars, databaseVars, gridfsVars>>
       ELSE /\ ccalls' = Append(ccalls, <<"create_many", outcome, size>>)
            /\ CASE outcome = "inserted" ->
                      \* the loop over inserted_ids, then return result->result().inserted_count();
                      LET after == AssignIds(Docs(size), InsertedIds(size))
                      IN /\ _id' = after[1][1]
                         /\ stored' = stored \cup {InsertedIds(size)[i] : i \in 0..(size - 1)}
                         /\ contents' = InsertMany(contents, Docs(size), InsertedIds(size), ord)
                         /\ lastCall' = [Returned("create_many", size, after) EXCEPT
                                             !.input = Docs(size),
                                             !.inserted_ids = InsertedIds(size)]
                 [] outcome = "unacknowledged" ->
                      \* the result is empty: return 0
                      /\ _id' = _id
                      /\ stored' = stored \cup {InsertedIds(size)[i] : i \in 0..(size - 1)}
                      /\ contents' = InsertMany(contents, Docs(size), InsertedIds(size), ord)
                      /\ lastCall' = [Returned("create_many", 0, Docs(size)) EXCEPT !.input = Docs(size)]
                 [] outcome = "throws" ->
                      /\ UNCHANGED <<_id, stored, contents>>
                      /\ lastCall' = [Raised("create_many", "QDB::Exception") EXCEPT !.input = Docs(size)]
            /\ userDoc' = userDoc
            /\ UNCHANGED <<valueVars, updateVars, queryVars, pipelineVars, databaseVars, gridfsVars>>

\* Collection::find_one(Query::by_id(doc.get_id())): the result is a new
\* object built by from_bson_doc; the Document at hand is only read.
find_one ==
    /\ Len(ccalls) < MaxCollectionCalls
    /\ IF TypeOf(_id) = "FT_OBJECT_ID" /\ PayloadOf(_id) \in stored
       THEN /\ ccalls' = Append(ccalls, <<"find_one", "found">>)
            /\ lastCall' = Returned("find_one", 1, <<Found(contents[PayloadOf(_id)])>>)
       ELSE /\ ccalls' = Append(ccalls, <<"find_one", "nullopt">>)
            /\ lastCall' = Returned("find_one", 0, <<>>)
    /\ UNCHANGED <<_id, userDoc, stored, contents>>
    /\ UNCHANGED <<valueVars, updateVars, queryVars, pipelineVars, databaseVars, gridfsVars>>

\* The stored document after Update().set("name", "updated").
SetName(view) ==
    [i \in 1..Len(view) |-> IF view[i][1] = "name" THEN <<"name", <<"k_string", "updated">>>>
                            ELSE view[i]]

\* Collection::update_one(Query::by_id(doc.get_id()), Update().set("name", ...))
update_one ==
    /\ Len(ccalls) < MaxCollectionCalls
    /\ IF TypeOf(_id) = "FT_OBJECT_ID" /\ PayloadOf(_id) \in stored
       THEN /\ ccalls' = Append(ccalls, <<"update_one", "modified">>)
            /\ contents' = [contents EXCEPT ![PayloadOf(_id)] = SetName(@)]
            /\ lastCall' = Returned("update_one", 1, <<>>)
       ELSE /\ ccalls' = Append(ccalls, <<"update_one", "none">>)
            /\ contents' = contents
            /\ lastCall' = Returned("update_one", 0, <<>>)
    /\ UNCHANGED <<_id, userDoc, stored>>
    /\ UNCHANGED <<valueVars, updateVars, queryVars, pipelineVars, databaseVars, gridfsVars>>

\* Collection::delete_one(Query::by_id(doc.get_id()))
delete_one ==
    /\ Len(ccalls) < MaxCollectionCalls
    /\ IF TypeOf(_id) = "FT_OBJECT_ID" /\ PayloadOf(_id) \in stored
       THEN /\ stored' = stored \ {PayloadOf(_id)}
            /\ contents' = [oid_value \in DOMAIN contents \ {PayloadOf(_id)} |-> contents[oid_value]]
            /\ ccalls' = Append(ccalls, <<"delete_one", "deleted">>)
            /\ lastCall' = Returned("delete_one", 1, <<>>)
       ELSE /\ stored' = stored
            /\ contents' = contents
            /\ ccalls' = Append(ccalls, <<"delete_one", "none">>)
            /\ lastCall' = Returned("delete_one", 0, <<>>)
    /\ UNCHANGED <<_id, userDoc>>
    /\ UNCHANGED <<valueVars, updateVars, queryVars, pipelineVars, databaseVars, gridfsVars>>

\* Collection::count_documents, called after a call that can change the
\* count: the count, or QDB::Exception for whatever the driver throws.
count_documents ==
    /\ lastCall.op \in {"create_one", "create_many", "delete_one"}
    /\ \E reached \in BOOLEAN :
       lastCall' = IF reached
                   THEN Returned("count_documents", Cardinality(stored), <<>>)
                   ELSE Raised("count_documents", "QDB::Exception")
    /\ UNCHANGED <<_id, userDoc, stored, contents, ccalls>>
    /\ UNCHANGED <<valueVars, updateVars, queryVars, pipelineVars, databaseVars, gridfsVars>>

\* An id string as the values of its characters: 0..15 for a hexadecimal
\* digit, 16 for any other character.
IdStrings ==
    {[i \in 1..24 |-> 10], [i \in 1..24 |-> IF i = 24 THEN 16 ELSE 10], <<1, 2, 3>>}

\* bsoncxx::oid(id_str): the twelve bytes of twenty-four hexadecimal digits;
\* any other string throws.
oid(id_str) ==
    IF Len(id_str) = 24 /\ \A i \in 1..24 : id_str[i] < 16
    THEN Ok([b \in 1..12 |-> 16 * id_str[2 * b - 1] + id_str[2 * b]])
    ELSE Throw("bsoncxx::exception")

\* Query::by_id(const std::string &), called before the collection is
\* used: nothing catches what oid throws.
by_id ==
    /\ ccalls = <<>>
    /\ \E id_str \in IdStrings :
       lastCall' = IF IsOk(oid(id_str))
                   THEN [Returned("by_id", 0, <<>>) EXCEPT
                            !.id_str = id_str,
                            !.query = add_condition(EmptyMap, "_id",
                                          FV("FT_OBJECT_ID", "oid", ValueOf(oid(id_str))))]
                   ELSE [Raised("by_id", ValueOf(oid(id_str))) EXCEPT !.id_str = id_str]
    /\ UNCHANGED <<_id, userDoc, stored, contents, ccalls>>
    /\ UNCHANGED <<valueVars, updateVars, queryVars, pipelineVars, databaseVars, gridfsVars>>

CollectionNext ==
    \/ AssignFields
    \/ create_one
    \/ create_many
    \/ find_one
    \/ update_one
    \/ delete_one
    \/ count_documents
    \/ by_id

SpecCollection == Init /\ [][CollectionNext]_vars

\* The calls that created the Document: an insert whose result was there.
Created == {i \in 1..Len(ccalls) : ccalls[i][2] = "inserted"}

\* C20: the identifier is unset until the first successful create, and once
\* assigned it is never assigned again, whatever collection operations are
\* applied to the Document (a second create_one included).
C20_IdAssignedOnce ==
    /\ [](Created = {} => _id = DefaultFieldValue)
    /\ [][_id # DefaultFieldValue => _id' = _id]_vars

----------------------------------------------------------------------------
(* Properties of get_field and of the results of aggregate                  *)

\* C27: get_field returns true exactly when the key is present, leaves
\* out_val as it was when the key is absent, and assigns it the value of
\* as<T>() when the key is present.
C27_GetField ==
    (ret # NoRet /\ ret[1] = "get_field") =>
        /\ IsOk(ret[4])
        /\ ValueOf(ret[4])[1] = (ret[3] = "k")
        /\ ret[3] # "k" => ValueOf(ret[4])[2] = Prior
        /\ ret[3] = "k" => Ok(ValueOf(ret[4])[2]) = As(ret[2], fieldValue)

\* The element of the result document under the key _id, if there is one.
IdElements(view) == {view[i][2] : i \in {j \in 1..Len(view) : view[j][1] = "_id"}}

\* C24: a result's _id that is not an ObjectId reaches from_fields under
\* the key "_id" (an Int32 one is what AgeResult reads as its age) and the
\* identifier stays unset; an ObjectId _id becomes the identifier and is
\* not among the fields; every other element is among the fields.
C24_AggregateId ==
    (ret # NoRet /\ ret[1] = "aggregate") =>
        /\ \A e \in IdElements(ret[2]) :
             IF e[1] = "k_oid"
             THEN /\ ret[3] = FV("FT_OBJECT_ID", "oid", e[2])
                  /\ "_id" \notin DOMAIN ret[4]
             ELSE /\ ret[3] = DefaultFieldValue
                  /\ "_id" \in DOMAIN ret[4]
                  /\ ret[4]["_id"] = fromBsonElement(e)
                  /\ e[1] = "k_int32" => ret[5][1] = Ok(e[2])
        /\ \A i \in 1..Len(ret[2]) :
             ret[2][i][1] # "_id" =>
                 /\ ret[2][i][1] \in DOMAIN ret[4]
                 /\ ret[4][ret[2][i][1]] = fromBsonElement(ret[2][i][2])

\* The $group result { _id: 50, count: 2 } read into an AgeResult.
C24_Witness ==
    /\ ret # NoRet
    /\ ret[1] = "aggregate"
    /\ ret[2] = <<<<"_id", <<"k_int32", 50>>>>, <<"count", <<"k_int32", 2>>>>>>
    /\ ret[3] = DefaultFieldValue
    /\ ret[5] = <<Ok(50), Ok(2)>>

----------------------------------------------------------------------------
(* GridFSBucket: upload_from_file and download_to_file                      *)
(* A file is the bytes 0 .. length-1 of its source; data in flight is a     *)
(* sequence of byte ranges <<first, count>> of the source.                   *)

\* char buffer[4096]; std::uint8_t buffer[4096];
BufferSize == 4096

\* The lengths of the source files: empty, shorter than the buffer, whole
\* multiples of it, and one byte short of and beyond a multiple.
FileLengths ==
    {k * BufferSize + d : k \in 0..MaxBlocks, d \in {0, 1, BufferSize - 1}}

Min(a, b) == IF a <= b THEN a ELSE b

\* The ranges without the empty ones and with adjoining ranges joined: two
\* range sequences hold the same bytes exactly when these are equal.
RECURSIVE Bytes(_)
Bytes(ranges) ==
    IF ranges = <<>> THEN <<>>
    ELSE LET rest == Bytes(Tail(ranges))
             h == Head(ranges)
         IN IF h[2] = 0 THEN rest
            ELSE IF rest # <<>> /\ rest[1][1] = h[1] + h[2]
                 THEN <<<<h[1], h[2] + rest[1][2]>>>> \o Tail(rest)
                 ELSE <<h>> \o rest

\* The number of bytes the ranges hold.
RECURSIVE Size(_)
Size(ranges) == IF ranges = <<>> THEN 0 ELSE Head(ranges)[2] + Size(Tail(ranges))

\* downloader.read(buffer, n) at offset o of the stored data: the next n
\* bytes, or those that are left.
RECURSIVE Slice(_, _, _)
Slice(ranges, o, n) ==
    IF n = 0 \/ ranges = <<>> THEN <<>>
    ELSE LET h == Head(ranges)
         IN IF o >= h[2] THEN Slice(Tail(ranges), o - h[2], n)
            ELSE <<<<h[1] + o, Min(n, h[2] - o)>>>>
                 \o Slice(Tail(ranges), 0, n - Min(n, h[2] - o))

\* upload_from_file, up to the loop: the source is opened and the upload
\* stream is opened; a source that cannot be opened ends the call with
\* QDB::Exception and the stream not open.
upload_open ==
    /\ gpc = "idle"
    /\ Cardinality(DOMAIN _bucket) < MaxFiles
    /\ \E length \in FileLengths : \E opened \in BOOLEAN :
       IF opened
       THEN /\ source_stream' = [open |-> TRUE, length |-> length, pos |-> 0, gcount |-> 0]
            /\ uploader' = <<>>
            /\ gpc' = "upload_loop"
            /\ UNCHANGED <<_bucket, downloader, destination_stream>>
       ELSE /\ gpc' = "idle"
            /\ source_stream' = [NoStream EXCEPT !.length = length]
            /\ UNCHANGED <<uploader, _bucket, downloader, destination_stream>>
    /\ UNCHANGED <<valueVars, updateVars, queryVars, pipelineVars, collectionVars, databaseVars>>

\* while (source_stream.read(buffer, sizeof(buffer))) uploader.write(buffer, gcount());
\* read takes what is left up to a whole buffer; a short read fails the
\* stream and ends the loop.
upload_read ==
    /\ gpc = "upload_loop"
    /\ LET n == Min(BufferSize, source_stream.length - source_stream.pos)
       IN /\ source_stream' = [source_stream EXCEPT !.pos = @ + n, !.gcount = n]
          /\ IF n = BufferSize
             THEN /\ uploader' = Append(uploader, <<source_stream.pos, n>>)
                  /\ gpc' = "upload_loop"
             ELSE /\ uploader' = uploader
                  /\ gpc' = "upload_tail"
    /\ UNCHANGED <<_bucket, downloader, destination_stream>>
    /\ UNCHANGED <<valueVars, updateVars, queryVars, pipelineVars, collectionVars, databaseVars>>

\* A plausible slip: the bytes of the last, short read are not written.
WriteTail_Dropped(written, stream) == written

\* if (source_stream.gcount() > 0) uploader.write(buffer, source_stream.gcount());
WriteTail(written, stream) ==
    IF stream.gcount > 0
    THEN Append(written, <<stream.pos - stream.gcount, stream.gcount>>)
    ELSE written

\* The rest of upload_from_file: the tail is written, the upload stream is
\* closed and the id of the new file is returned.
upload_close ==
    /\ gpc = "upload_tail"
    /\ _bucket' = Append(_bucket, [source |-> source_stream.length,
                                   data |-> WriteTail(uploader, source_stream)])
    /\ uploader' = <<>>
    /\ source_stream' = NoStream
    /\ gpc' = "idle"
    /\ UNCHANGED <<downloader, destination_stream>>
    /\ UNCHANGED <<valueVars, updateVars, queryVars, pipelineVars, collectionVars, databaseVars>>

\* download_to_file, up to the loop: the destination is opened empty, the
\* download stream is opened and file_length is read.
download_open ==
    /\ gpc = "idle"
    /\ \E file_id \in DOMAIN _bucket :
       /\ downloader' = [file_id |-> file_id, file_length |-> Size(_bucket[file_id].data),
                         bytes_read |-> 0]
       /\ destination_stream' = <<>>
       /\ gpc' = "download_loop"
    /\ UNCHANGED <<source_stream, uploader, _bucket>>
    /\ UNCHANGED <<valueVars, updateVars, queryVars, pipelineVars, collectionVars, databaseVars>>

\* One iteration of while (bytes_read < file_length)
download_read ==
    /\ gpc = "download_loop"
    /\ downloader.bytes_read < downloader.file_length
    /\ LET bytes_to_read == Min(BufferSize, downloader.file_length - downloader.bytes_read)
       IN /\ destination_stream' = destination_stream
                 \o Slice(_bucket[downloader.file_id].data, downloader.bytes_read, bytes_to_read)
          /\ downloader' = [downloader EXCEPT !.bytes_read = @ + bytes_to_read]
    /\ UNCHANGED <<gpc, source_stream, uploader, _bucket>>
    /\ UNCHANGED <<valueVars, updateVars, queryVars, pipelineVars, collectionVars, databaseVars>>

\* The loop condition fails: download_to_file returns.
download_return ==
    /\ gpc = "download_loop"
    /\ ~(downloader.bytes_read < downloader.file_length)
    /\ gpc' = "idle"
    /\ UNCHANGED <<source_stream, uploader, _bucket, downloader, destination_stream>>
    /\ UNCHANGED <<valueVars, updateVars, queryVars, pipelineVars, collectionVars, databaseVars>>

GridFSNext ==
    \/ upload_open
    \/ upload_read
    \/ upload_close
    \/ download_open
    \/ download_read
    \/ download_return

SpecGridFS == Init /\ [][GridFSNext]_vars

\* The bytes of a source file of the given length.
Whole(length) == Bytes(<<<<0, length>>>>)

\* C26: every stored file holds the bytes of its source, each once and in
\* order; a finished download has written exactly file_length bytes, those
\* of the source; and every iteration of the download loop moves bytes_read
\* forward without passing file_length.
C26_GridFSRoundTrip ==
    /\ [](\A id \in DOMAIN _bucket :
            /\ Bytes(_bucket[id].data) = Whole(_bucket[id].source)
            /\ Size(_bucket[id].data) = _bucket[id].source)
    /\ []((gpc = "idle" /\ downloader # NoDownload) =>
            /\ Bytes(destination_stream) = Whole(_bucket[downloader.file_id].source)
            /\ Size(destination_stream) = downloader.file_length
            /\ downloader.bytes_read = downloader.file_length)
    /\ [][(gpc = "download_loop" /\ downloader' # downloader) =>
            /\ downloader'.bytes_read > downloader.bytes_read
            /\ downloader'.bytes_read <= downloader.file_length]_vars

\* A file of two buffers and one byte, uploaded and downloaded.
C26_Witness ==
    /\ gpc = "idle"
    /\ downloader # NoDownload
    /\ _bucket[downloader.file_id].source = 2 * BufferSize + 1
    /\ destination_stream = <<<<0, BufferSize>>, <<BufferSize, BufferSize>>, <<2 * BufferSize, 1>>>>


(***************************************************************************)
(* Database: the driver instance, the connection pool, the Collection and  *)
(* GridFSBucket handles that hold a pool entry, and with_transaction run   *)
(* from several threads on one shared Database.                            *)
(***************************************************************************)

\* The clients of the pool (maxPoolSize of them).
PoolClients == 1..MaxPoolSize

\* A plausible slip: the pool hands out a client whether or not it is checked out.
FreeClients_All(pool) == PoolClients

\* The clients m_pool->acquire() can hand out: those not checked out; it
\* waits while there is none.
FreeClients(pool) == PoolClients \ pool

\* m_pool->acquire(): the first of the clients it can hand out.
acquire(pool) == CHOOSE client \in FreeClients(pool) : \A other \in FreeClients(pool) : client <= other

\* A plausible slip: the entry is kept after its holder is gone.
Release_Leak(pool, client) == pool

\* ~entry(): the client goes back to the pool.
Release(pool, client) == pool \ {client}

\* A plausible slip: a driver instance per Database object.
InstanceAfter_PerDatabase(n) == n + 1

\* static mongocxx::instance instance{}; constructed by the first call only.
InstanceAfter(n) == IF n = 0 THEN 1 ELSE n

RemoveAt(seq, i) == [j \in 1..(Len(seq) - 1) |-> IF j < i THEN seq[j] ELSE seq[j + 1]]

\* Database::Database: get_instance(), then the pool is made.
Database ==
    /\ databases < MaxDatabases
    /\ instance' = InstanceAfter(instance)
    /\ databases' = databases + 1
    /\ UNCHANGED <<m_pool, collections, buckets, tx, data>>
    /\ UNCHANGED <<valueVars, updateVars, queryVars, pipelineVars, collectionVars, gridfsVars>>

\* get_collection: an entry is acquired and moved into the Collection.
get_collection ==
    /\ databases > 0
    /\ Len(collections) + Len(buckets) < MaxHandles
    /\ FreeClients(m_pool) # {}
    /\ m_pool' = m_pool \cup {acquire(m_pool)}
    /\ collections' = Append(collections, acquire(m_pool))
    /\ UNCHANGED <<instance, databases, buckets, tx, data>>
    /\ UNCHANGED <<valueVars, updateVars, queryVars, pipelineVars, collectionVars, gridfsVars>>

\* ~Collection: _client_entry is destroyed and its client released.
DestroyCollection ==
    /\ collections # <<>>
    /\ \E i \in 1..Len(collections) :
       /\ m_pool' = Release(m_pool, collections[i])
       /\ collections' = RemoveAt(collections, i)
    /\ UNCHANGED <<instance, databases, buckets, tx, data>>
    /\ UNCHANGED <<valueVars, updateVars, queryVars, pipelineVars, collectionVars, gridfsVars>>

\* get_gridfs_bucket: a GridFSBucket is constructed around a pool entry.
get_gridfs_bucket ==
    /\ databases > 0
    /\ Len(collections) + Len(buckets) < MaxHandles
    /\ FreeClients(m_pool) # {}
    /\ m_pool' = m_pool \cup {acquire(m_pool)}
    /\ buckets' = Append(buckets, acquire(m_pool))
    /\ UNCHANGED <<instance, databases, collections, tx, data>>
    /\ UNCHANGED <<valueVars, updateVars, queryVars, pipelineVars, collectionVars, gridfsVars>>

\* ~GridFSBucket: _client_entry is destroyed and its client released.
DestroyBucket ==
    /\ buckets # <<>>
    /\ \E i \in 1..Len(buckets) :
       /\ m_pool' = Release(m_pool, buckets[i])
       /\ buckets' = RemoveAt(buckets, i)
    /\ UNCHANGED <<instance, databases, collections, tx, data>>
    /\ UNCHANGED <<valueVars, updateVars, queryVars, pipelineVars, collectionVars, gridfsVars>>

\* The document that the callback run by thread t inserts with the session
\* ("session") or without it ("direct").
Doc(t, kind) == <<t, kind>>

InProgress(t) == tx[t].pc \in {"acquired", "callback"}

\* with_transaction, first statement: auto client = m_pool->acquire();
tx_acquire(t) ==
    /\ databases > 0
    /\ tx[t].pc = "idle"
    /\ FreeClients(m_pool) # {}
    /\ m_pool' = m_pool \cup {acquire(m_pool)}
    /\ tx' = [tx EXCEPT ![t].pc = "acquired", ![t].client = acquire(m_pool)]
    /\ UNCHANGED <<instance, databases, collections, buckets, data>>
    /\ UNCHANGED <<valueVars, updateVars, queryVars, pipelineVars, collectionVars, gridfsVars>>

\* auto session = client->start_session(); outside the try block: a failure
\* of the driver leaves with_transaction as it is, and the entry is released
\* while the stack unwinds.
tx_start_session(t) ==
    /\ tx[t].pc = "acquired"
    /\ \E started \in BOOLEAN :
       IF started
       THEN /\ tx' = [tx EXCEPT ![t].pc = "callback"]
            /\ m_pool' = m_pool
       ELSE /\ tx' = [tx EXCEPT ![t].pc = "done", ![t].client = 0,
                                ![t].result = "mongocxx::exception"]
            /\ m_pool' = Release(m_pool, tx[t].client)
    /\ UNCHANGED <<instance, databases, collections, buckets, data>>
    /\ UNCHANGED <<valueVars, updateVars, queryVars, pipelineVars, collectionVars, gridfsVars>>

\* A plausible slip: every insert made inside the callback joins the transaction.
insert_one_AlwaysStaged(visible, staged, doc, session) == <<visible, staged \cup {doc}>>

\* _collection_handle.insert_one(session->get(), ...) writes inside the
\* transaction of the session; insert_one(...) writes to the database at once.
insert_one(visible, staged, doc, session) ==
    IF session THEN <<visible, staged \cup {doc}>> ELSE <<visible \cup {doc}, staged>>

\* The callback calls create_one on a Collection, with or without the session.
callback_create_one(t) ==
    /\ tx[t].pc = "callback"
    /\ collections # <<>>
    /\ \E session \in BOOLEAN :
       LET doc == Doc(t, IF session THEN "session" ELSE "direct")
           after == insert_one(data, tx[t].staged, doc, session)
       IN /\ doc \notin tx[t].staged \cup tx[t].direct \cup data
          /\ data' = after[1]
          /\ tx' = [tx EXCEPT ![t].staged = after[2],
                              ![t].direct = IF session THEN @ ELSE @ \cup {doc}]
    /\ UNCHANGED <<instance, databases, m_pool, collections, buckets>>
    /\ UNCHANGED <<valueVars, updateVars, queryVars, pipelineVars, collectionVars, gridfsVars>>

\* A plausible slip: the commit writes nothing.
commit_transaction_Dropped(visible, staged) == visible

\* The driver commits: what was written in the transaction becomes visible.
commit_transaction(visible, staged) == visible \cup staged

\* The callback returns and the driver commits; a commit that fails throws
\* inside the try block and is rethrown as QDB::Exception.  Either way the
\* session and the entry are destroyed when with_transaction is left.
callback_return(t) ==
    /\ tx[t].pc = "callback"
    /\ \E committed \in BOOLEAN :
       /\ data' = IF committed THEN commit_transaction(data, tx[t].staged) ELSE data
       /\ tx' = [tx EXCEPT ![t].pc = "done", ![t].client = 0, ![t].callback = "returned",
                           ![t].result = IF committed THEN "returned" ELSE "QDB::Exception"]
    /\ m_pool' = Release(m_pool, tx[t].client)
    /\ UNCHANGED <<instance, databases, collections, buckets>>
    /\ UNCHANGED <<valueVars, updateVars, queryVars, pipelineVars, collectionVars, gridfsVars>>

\* What the callback can throw: an exception derived from std::exception, or
\* a value of another type.
Thrown == {"std::exception", "other"}

\* catch (const std::exception &e) { throw QDB::Exception(...); }
Rethrown(thrown) == IF thrown = "std::exception" THEN "QDB::Exception" ELSE thrown

\* The callback throws: the driver aborts the transaction and rethrows, and
\* the catch clause turns a std::exception into QDB::Exception.
callback_throw(t) ==
    /\ tx[t].pc = "callback"
    /\ \E thrown \in Thrown :
       tx' = [tx EXCEPT ![t].pc = "done", ![t].client = 0, ![t].callback = thrown,
                        ![t].result = Rethrown(thrown)]
    /\ m_pool' = Release(m_pool, tx[t].client)
    /\ UNCHANGED <<instance, databases, collections, buckets, data>>
    /\ UNCHANGED <<valueVars, updateVars, queryVars, pipelineVars, collectionVars, gridfsVars>>

DatabaseNext ==
    \/ Database
    \/ get_collection
    \/ DestroyCollection
    \/ get_gridfs_bucket
    \/ DestroyBucket
    \/ \E t \in Threads : tx_acquire(t)
    \/ \E t \in Threads : tx_start_session(t)
    \/ \E t \in Threads : callback_create_one(t)
    \/ \E t \in Threads : callback_return(t)
    \/ \E t \in Threads : callback_throw(t)

SpecDatabase == Init /\ [][DatabaseNext]_vars


(***************************************************************************)
(* Properties of the Database.                                             *)
(***************************************************************************)

\* The threads whose with_transaction call is in progress.
Running == {t \in Threads : InProgress(t)}

\* The clients held by Collections, by GridFSBuckets and by with_transaction calls.
HeldClients ==
    {collections[i] : i \in DOMAIN collections} \cup {buckets[i] : i \in DOMAIN buckets}
        \cup {tx[t].client : t \in Running}

\* C30 (as amended): the entries in use are as many as the live Collections,
\* the live GridFSBuckets and the with_transaction calls in progress
\* together, and the step that ends a with_transaction call, by commit, by
\* a failed commit, by an exception of the callback or by a failure to
\* start the session, returns the client that call held.
C30_PoolAccounting ==
    /\ [](Cardinality(m_pool) = Len(collections) + Len(buckets) + Cardinality(Running))
    /\ [](\A t \in Threads : InProgress(t) <=> tx[t].client \in m_pool)
    /\ [][\A t \in Threads :
            (InProgress(t) /\ tx'[t].pc = "done") => m_pool' = m_pool \ {tx[t].client}]_vars

\* A Collection, a GridFSBucket and a running transaction hold three
\* entries, and one transaction has ended on a failed commit.
C30_Witness ==
    /\ Len(collections) = 1 /\ Len(buckets) = 1
    /\ \E t, u \in Threads :
       /\ tx[t].pc = "callback"
       /\ tx[u].pc = "done" /\ tx[u].callback = "returned" /\ tx[u].result = "QDB::Exception"
    /\ Cardinality(m_pool) = 3

\* C30 as stated: the entries in use are as many as the live Collections and
\* the with_transaction calls in progress.
C30_AsStated ==
    Cardinality(m_pool) = Len(collections) + Cardinality(Running)

\* C25: no client is held by two holders at once, whatever the interleaving
\* of get_collection and with_transaction of the threads, and the driver
\* instance is constructed once, with the first Database, however many
\* Database objects there are.
C25_ThreadSafe ==
    /\ Cardinality(HeldClients) = Len(collections) + Len(buckets) + Cardinality(Running)
    /\ instance = (IF databases = 0 THEN 0 ELSE 1)

\* Two Database objects, a Collection, and both threads inside with_transaction.
C25_Witness ==
    /\ databases = 2
    /\ collections # <<>>
    /\ \A t \in Threads : tx[t].pc = "callback"

\* C28: a document inserted inside the callback without the session is
\* visible from the insert on, also after the callback has thrown and the
\* transaction is aborted, while what was inserted with the session is not
\* visible then.
C28_SessionlessEscapes ==
    \A t \in Threads :
        /\ tx[t].direct \subseteq data
        /\ (tx[t].pc = "done" /\ tx[t].callback \in Thrown) => tx[t].staged \cap data = {}

\* The callback inserted one document with the session and one without it
\* and then threw.
C28_Witness ==
    \E t \in Threads :
        /\ tx[t].pc = "done" /\ tx[t].callback = "std::exception"
        /\ tx[t].staged # {} /\ tx[t].direct # {}

\* C22 (as amended): when with_transaction returns, what the callback wrote
\* with the session is visible; when the callback throws, none of it is
\* visible, and a std::exception of the callback reaches the caller as
\* QDB::Exception; when the callback returns and with_transaction does not,
\* the caller gets QDB::Exception.  Nothing written with the session is
\* visible while the call is in progress.
C22_Atomicity ==
    \A t \in Threads :
        /\ InProgress(t) => tx[t].staged \cap data = {}
        /\ tx[t].pc = "done" =>
            /\ tx[t].result = "returned" =>
                    (tx[t].callback = "returned" /\ tx[t].staged \subseteq data)
            /\ tx[t].callback \in Thrown => tx[t].staged \cap data = {}
            /\ tx[t].callback = "std::exception" => tx[t].result = "QDB::Exception"
            /\ (tx[t].callback = "returned" /\ tx[t].result # "returned") =>
                    tx[t].result = "QDB::Exception"

\* One transaction committed a document and another one was aborted after
\* writing one.
C22_Witness ==
    \E t, u \in Threads :
        /\ tx[t].pc = "done" /\ tx[t].result = "returned" /\ tx[t].staged # {}
        /\ tx[u].pc = "done" /\ tx[u].callback = "std::exception" /\ tx[u].staged # {}
        /\ Cardinality(data) = 1

\* C22 as stated: what the callback wrote with the session is visible after
\* with_transaction exactly when the callback returned, and a callback that
\* throws makes with_transaction raise QDB::Exception.
C22_AsStated ==
    \A t \in Threads :
        tx[t].pc = "done" =>
            /\ tx[t].staged # {} => (tx[t].staged \subseteq data <=> tx[t].callback = "returned")
            /\ tx[t].callback \in Thrown => tx[t].result = "QDB::Exception"


(***************************************************************************)
(* Properties of the calls on a Collection.                                *)
(***************************************************************************)

\* The call this step makes on the collection, or <<>>.
CallMade == IF ccalls' # ccalls THEN ccalls'[Len(ccalls')] ELSE <<>>

\* C21: a create_one whose insert is acknowledged returns 1 and gives the
\* Document a new identifier under which the collection holds its user
\* fields, and the find_one by that identifier that follows returns them;
\* a create_many whose insert of n documents is acknowledged returns n,
\* gives docs[i] the identifier reported for position i, under which the
\* collection holds the user fields of docs[i], and the collection grows by
\* n; create_many on an empty vector returns 0 and leaves the collection
\* and the Document as they were.
C21_CreateReturnsAndIds ==
    /\ [][CallMade = <<"create_one", "inserted">> =>
            /\ lastCall'.outcome = "returned" /\ lastCall'.count = 1
            /\ TypeOf(_id') = "FT_OBJECT_ID"
            /\ PayloadOf(_id') \in stored' \ stored
            /\ Found(contents'[PayloadOf(_id')]) = <<_id', userDoc>>]_vars
    /\ [][(lastCall.op = "create_one" /\ lastCall.outcome = "returned" /\ lastCall.count = 1
              /\ CallMade # <<>> /\ CallMade[1] = "find_one") =>
            (lastCall'.outcome = "returned" /\ lastCall'.docs = <<<<_id, userDoc>>>>)]_vars
    /\ [][(CallMade # <<>> /\ CallMade[1] = "create_many" /\ CallMade[2] = "inserted") =>
            LET n == CallMade[3]
                docs == lastCall'.input
                inserted_ids == lastCall'.inserted_ids
                after == lastCall'.docs
            IN /\ lastCall'.outcome = "returned"
               /\ lastCall'.count = n
               /\ Len(docs) = n /\ Len(after) = n
               /\ Cardinality(stored') = Cardinality(stored) + n
               /\ \A i \in 0..(n - 1) :
                    /\ after[i + 1][1] = FieldValueOf(T_oid, inserted_ids[i])
                    /\ inserted_ids[i] \in stored' \ stored
                    /\ Found(contents'[inserted_ids[i]]) = <<after[i + 1][1], docs[i + 1][2]>>
               /\ _id' = after[1][1]]_vars
    /\ [][CallMade = <<"create_many", "empty", 0>> =>
            /\ lastCall'.outcome = "returned" /\ lastCall'.count = 0
            /\ UNCHANGED <<_id, userDoc, stored, contents>>]_vars

\* Two documents created by create_many, then the Document created again
\* by create_one and found by its identifier.
C21_Witness ==
    /\ userDoc \in CollectionUsers
    /\ Len(ccalls) = 3
    /\ ccalls[1] = <<"create_many", "inserted", 2>>
    /\ ccalls[2] = <<"create_one", "inserted">>
    /\ lastCall.op = "find_one" /\ lastCall.docs = <<<<_id, userDoc>>>>
    /\ Cardinality(stored) = 3

\* The exceptions of the driver libraries.
DriverExceptions == {"mongocxx::exception", "bsoncxx::exception"}

\* C23: no call ends with an exception of the driver.
C23_NoDriverException == lastCall.outcome \notin DriverExceptions

====
